---- MODULE Spec2Model ----
(***************************************************************************)
(* The swapchain image-lifecycle engine of src/wsi/swapchain_base.cpp.     *)
(*                                                                         *)
(* Two swapchains are modelled: "A", which exists from the start, and "B", *)
(* which is created later with oldSwapchain = A (so A becomes B's ancestor *)
(* and B becomes A's descendant).  Each swapchain has one application      *)
(* thread (Vulkan requires external synchronisation of a swapchain, so     *)
(* acquire, present and destroy of ONE swapchain never overlap) and one    *)
(* page-flip worker thread.  A thread's step is the code between two of    *)
(* its suspension points: a semaphore wait, a fence wait, a device call    *)
(* (ResetFences / QueueSubmit / QueueWaitIdle) or a thread join.           *)
(*                                                                         *)
(* Two functions that touch none of that state have specifications of      *)
(* their own, which start from every request within the bounds and apply   *)
(* the function once: get_swapchain_images (ImagesSpec), and the buffer    *)
(* allocator of src/util/wsialloc, wsiallocp_alloc with its DMA-BUF heaps  *)
(* and ION adaptors (AllocSpec).                                           *)
(***************************************************************************)
EXTENDS Integers, Sequences, FiniteSets, TLC

\* minImageCount of both swapchains (src/wsi/swapchain_base.cpp:207).
NumImages == 2

\* How many acquire_next_image calls, of both swapchains together, get past
\* the wait in one run.
MaxAcquires == 3

\* How many fence waits fail (the device is lost) in one run.
MaxFenceFailures == 1

\* The largest m_num_swapchain_images get_swapchain_images is called with.
MaxImageCount == 5

\* The largest *swapchain_image_count get_swapchain_images is called with.
MaxRequested == 6

SC == {"A", "B"}
NoSC == "none"
Img == 0 .. (NumImages - 1)
NoImg == -1

\* No call returned in the step that led here.
NoRet == [ sc |-> NoSC, op |-> "none", val |-> "none", idx |-> NoImg ]

\* Call op of swapchain s returned val; idx is what it wrote to *image_index.
Returned(s, o, v, i) == [ sc |-> s, op |-> o, val |-> v, idx |-> i ]

\* swapchain_image::status values.
\* The value of a request or reply variable while no call is modelled.
NoCall == [ op |-> "none" ]

ImageStates == {"INVALID", "FREE", "ACQUIRED", "PENDING", "PRESENTED"}

VARIABLES
    life,                  \* "none" (not created), "live", "dead" (teardown returned)
    status,                \* m_swapchain_images[i].status
    ring, head, tail,      \* m_pending_buffer_pool
    free_image_semaphore,  \* m_free_image_semaphore
    page_flip_semaphore,   \* m_page_flip_semaphore
    start_present_semaphore, \* m_start_present_semaphore
    is_valid,              \* m_is_valid
    first_present,         \* m_first_present
    page_flip_thread_run,  \* m_page_flip_thread_run
    ancestor, descendant,  \* m_ancestor, m_descendant
    wpc, wIdx, wWait,      \* page-flip worker: position, pending_index, wait
    apc, aIdx, aTook, aWait, \* application thread: position and locals
    aRes,                  \* application thread: queue_present's local `result`
    ret,                   \* what the call that returned in this step gave its caller
    pend,                  \* ghost: the entries enqueued and not yet dequeued, each
                           \* << index, queue_present returned OUT_OF_DATE_KHR >>
    wTook,                 \* ghost: that flag of the entry the worker holds
    unobserved,            \* ghost: a fence wait failed and no acquire returned since
    destroyed,             \* ghost: the images destroy_image has been called on
    acquires,              \* acquire_next_image calls that passed the wait
    fence_failures,        \* WaitForFences calls that returned an error
    aborted,               \* an assert() of a debug build has fired
    alloc_request,         \* wsialloc_alloc: the allocator and the arguments
    alloc_result,          \* wsialloc_alloc: the caller's wsialloc_allocate_result
    alloc_return,          \* wsialloc_alloc: the wsialloc_error returned
    alloc_entry,           \* the function the call was made through
    heap_requests,         \* sizes the kernel heap was asked for, in order
    images_request,        \* get_swapchain_images: the arguments
    images_reply,          \* get_swapchain_images: result and what was written
    new_request,           \* wsialloc_new (ION): *allocator before the call and
                           \* what malloc, open and the heap query give
    new_reply              \* wsialloc_new (ION): result, *allocator, open fds

\* What ResetFences and QueueSubmit return when they fail.
DeviceErrors == { "ERROR_OUT_OF_DEVICE_MEMORY", "ERROR_DEVICE_LOST" }

\* `result` before a device call has written it.
NoResult == "none"

ringVars == << ring, head, tail, pend >>
semVars == << free_image_semaphore, page_flip_semaphore, start_present_semaphore >>
flagVars == << is_valid, first_present, page_flip_thread_run >>
ghostVars == << unobserved, destroyed >>
linkVars == << ancestor, descendant >>
workerVars == << wpc, wIdx, wWait, wTook >>
appVars == << apc, aIdx, aTook, aWait, aRes >>
budgetVars == << acquires, fence_failures >>
allocVars ==
    << alloc_request, alloc_result, alloc_return, alloc_entry, heap_requests >>
imagesVars == << images_request, images_reply >>
newVars == << new_request, new_reply >>
callVars == << allocVars, imagesVars, newVars >>

swapchainVars ==
    << life, status, ringVars, semVars, flagVars, linkVars, workerVars,
       appVars, ret, budgetVars, ghostVars, aborted >>

vars == << swapchainVars, callVars >>

----------------------------------------------------------------------------
(* Pure helpers, one per piece of code.                                    *)

\* Faulty variant of ring_next: the index does not advance.
ring_next_stays(x) == x

\* (x + 1) % m_pending_buffer_pool.size
ring_next(x) == (x + 1) % NumImages

\* The set of images of a status array that are in state q.
InState(st, q) == { i \in Img : st[i] = q }

\* The platform's create_image leaves a usable image: the state acquire scans for.
create_image_status == "FREE"

\* The platform's destroy_image releases image and fence: no state left to use.
destroy_image_status == "INVALID"

\* Faulty variant of acquire_scan: the scan runs from the top.
acquire_scan_from_top(st) ==
    IF InState(st, "FREE") = {} THEN NumImages
    ELSE CHOOSE i \in InState(st, "FREE") : \A j \in InState(st, "FREE") : i >= j

\* The scan of acquire_next_image: the first FREE index, NumImages when none.
acquire_scan(st) ==
    IF InState(st, "FREE") = {} THEN NumImages
    ELSE CHOOSE i \in InState(st, "FREE") : \A j \in InState(st, "FREE") : i <= j

\* Faulty variant of descendant_started_presenting: only an image on screen
\* counts.
descendant_started_presenting_on_screen(st) ==
    \E i \in Img : st[i] = "PRESENTED"

\* The loop queue_present and teardown run over the descendant's images.
descendant_started_presenting(st) ==
    \E i \in Img : st[i] = "PRESENTED" \/ st[i] = "PENDING"

\* wait_for_pending_buffers: wait = m_num_swapchain_images - num_acquired - 1.
pending_wait_count(st) == NumImages - Cardinality(InState(st, "ACQUIRED")) - 1

\* Faulty variant of unpresent_image_status: the displaced image is left as
\* it was.
unpresent_image_status_untouched(desc) == "PRESENTED"

\* The state unpresent_image leaves the image in: FREE, then destroyed when a
\* descendant is recorded.
unpresent_image_status(desc) ==
    IF desc # NoSC THEN destroy_image_status ELSE "FREE"

\* Faulty variant of unpresent_image_semaphore: the post is missing.
unpresent_image_semaphore_no_post(v, displaced) == v

\* What unpresent_image does to the free-image semaphore: one post for each
\* image handed back.
unpresent_image_semaphore(v, displaced) == v + Cardinality(displaced)

\* Faulty variant of unpresent_image_destroys: m_descendant is not looked at.
unpresent_image_destroys_always(desc, displaced) == displaced

\* The images unpresent_image calls destroy_image on: the one handed back,
\* when a descendant is recorded.
unpresent_image_destroys(desc, displaced) ==
    IF desc # NoSC THEN displaced ELSE {}

\* Faulty variant of deprecate_destroys: the state is not looked at.
deprecate_destroys_all(st) == Img

\* The images deprecate calls destroy_image on: every FREE one.
deprecate_destroys(st) == InState(st, "FREE")

\* Faulty variant of deprecate_status: the image on screen is destroyed too.
deprecate_status_on_screen_too(st) ==
    [ i \in Img |->
        IF st[i] \in { "FREE", "PRESENTED" } THEN destroy_image_status ELSE st[i] ]

\* The image states deprecate leaves behind.
deprecate_status(st) ==
    [ i \in Img |->
        IF i \in deprecate_destroys(st) THEN destroy_image_status ELSE st[i] ]

\* The platform's present_image(idx): idx goes on screen and the image it
\* displaces is handed back through unpresent_image.
present_image_displaced(st, idx) == InState(st, "PRESENTED") \ {idx}

present_image_status(st, desc, idx) ==
    [ i \in Img |->
        IF i = idx THEN "PRESENTED"
        ELSE IF i \in present_image_displaced(st, idx) THEN unpresent_image_status(desc)
        ELSE st[i] ]

\* Faulty variant of ring_enqueue: the index is written to two slots.
ring_enqueue_twice(r, t, i) == [ r EXCEPT ![t] = i, ![ring_next(t)] = i ]

\* Faulty variant of ring_enqueue: the write goes to the slot after the tail.
ring_enqueue_past_tail(r, t, i) == [ r EXCEPT ![ring_next(t)] = i ]

\* ring[tail] = image_index.
ring_enqueue(r, t, i) == [ r EXCEPT ![t] = i ]

\* ring[head].  The ring is malloc'ed and not cleared, and a slot is dead once
\* it has been read: a slot that holds no live entry reads as any value.
ring_front(r, h) == IF r[h] = NoImg THEN Img ELSE { r[h] }

\* The slot at the head after the read: its content is dead until
\* queue_present writes it again.
ring_dequeue(r, h) == [ r EXCEPT ![h] = NoImg ]

\* Faulty variant of queue_present_status: the image is left with its caller.
queue_present_status_acquired(took) == IF took THEN "FREE" ELSE "ACQUIRED"

\* Faulty variant of queue_present_status: the descendant is not looked at.
queue_present_status_always_pending(took) == "PENDING"

\* Faulty variant of queue_present_status: the image is marked as on screen.
queue_present_status_presented(took) == IF took THEN "FREE" ELSE "PRESENTED"

\* The state queue_present gives the image: FREE when the descendant had
\* started presenting at entry, PENDING otherwise.
queue_present_status(took) == IF took THEN "FREE" ELSE "PENDING"

queue_present_result(took) == IF took THEN "OUT_OF_DATE_KHR" ELSE "SUCCESS"

\* destroy_image on every slot of the array.
teardown_status(st) == [ i \in Img |-> destroy_image_status ]

\* The swapchain the worker of s took from m_ancestor before it started to
\* wait (the local `ancestor`): only B is ever created with an oldSwapchain.
ancestor_local(s) == IF s = "B" THEN "A" ELSE NoSC

\* The swapchain teardown took from m_descendant (the local `desc`): only A
\* is ever deprecated.
descendant_local(s) == IF s = "A" THEN "B" ELSE NoSC

\* The swapchain has been passed as oldSwapchain: it is retired, and Vulkan
\* forbids vkAcquireNextImageKHR on it from then on (it only drains what it
\* has handed out).
retired(s) == descendant_local(s) # NoSC /\ life[descendant_local(s)] # "none"

----------------------------------------------------------------------------
(* Construction.                                                           *)

\* Swapchain A after swapchain_base::init, B not yet created.
swapchain_init ==
    /\ life = [ s \in SC |-> IF s = "A" THEN "live" ELSE "none" ]
    /\ status = [ s \in SC |-> [ i \in Img |->
                    IF s = "A" THEN create_image_status ELSE "INVALID" ] ]
    /\ ring = [ s \in SC |-> [ i \in Img |-> NoImg ] ]
    /\ head = [ s \in SC |-> 0 ]
    /\ tail = [ s \in SC |-> 0 ]
    /\ pend = [ s \in SC |-> << >> ]
    /\ free_image_semaphore = [ s \in SC |-> IF s = "A" THEN NumImages ELSE 0 ]
    /\ page_flip_semaphore = [ s \in SC |-> 0 ]
    /\ start_present_semaphore = [ s \in SC |-> 0 ]
    /\ is_valid = [ s \in SC |-> s = "A" ]
    /\ first_present = [ s \in SC |-> TRUE ]
    /\ page_flip_thread_run = [ s \in SC |-> TRUE ]
    /\ ancestor = [ s \in SC |-> NoSC ]
    /\ descendant = [ s \in SC |-> NoSC ]
    /\ wpc = [ s \in SC |-> IF s = "A" THEN "loop" ELSE "none" ]
    /\ wIdx = [ s \in SC |-> NoImg ]
    /\ wWait = [ s \in SC |-> 0 ]
    /\ wTook = [ s \in SC |-> FALSE ]
    /\ unobserved = [ s \in SC |-> FALSE ]
    /\ destroyed = [ s \in SC |-> {} ]
    /\ apc = [ s \in SC |-> "idle" ]
    /\ aIdx = [ s \in SC |-> NoImg ]
    /\ aTook = [ s \in SC |-> FALSE ]
    /\ aWait = [ s \in SC |-> 0 ]
    /\ aRes = [ s \in SC |-> NoResult ]
    /\ ret = NoRet
    /\ acquires = 0
    /\ fence_failures = 0
    /\ aborted = FALSE

\* No allocator call and no image query is part of the swapchain runs.
Init ==
    /\ swapchain_init
    /\ alloc_request = NoCall /\ alloc_result = NoCall
    /\ alloc_return = "none" /\ alloc_entry = "none"
    /\ heap_requests = [ calls |-> << >>, heap |-> << >> ]
    /\ images_request = NoCall /\ images_reply = NoCall
    /\ new_request = NoCall /\ new_reply = NoCall

\* swapchain_base::init of B with create_info.oldSwapchain = A.  The caller
\* holds A externally synchronised, so A's application thread is idle.
init_descendant ==
    /\ ~aborted
    /\ life["B"] = "none" /\ life["A"] = "live" /\ apc["A"] = "idle"
    /\ life' = [ life EXCEPT !["B"] = "live" ]
    /\ status' = [ status EXCEPT
                     !["B"] = [ i \in Img |-> create_image_status ],
                     !["A"] = deprecate_status(status["A"]) ]
    /\ free_image_semaphore' = [ free_image_semaphore EXCEPT !["B"] = NumImages ]
    /\ wpc' = [ wpc EXCEPT !["B"] = "loop" ]
    /\ ancestor' = [ ancestor EXCEPT !["B"] = "A" ]
    /\ descendant' = [ descendant EXCEPT !["A"] = "B" ]
    /\ is_valid' = [ is_valid EXCEPT !["B"] = TRUE ]
    /\ destroyed' = [ destroyed EXCEPT
                        !["A"] = @ \cup deprecate_destroys(status["A"]) ]
    /\ ret' = Returned("B", "init", "SUCCESS", NoImg)
    /\ UNCHANGED << ringVars, page_flip_semaphore, start_present_semaphore,
                    first_present, page_flip_thread_run, wIdx, wWait, wTook,
                    appVars, budgetVars, unobserved, aborted >>
    /\ UNCHANGED callVars

----------------------------------------------------------------------------
(* acquire_next_image.                                                     *)

\* wait_for_free_buffer succeeds: one count of the semaphore is taken.
acquire_next_image_wait(s) ==
    /\ ~aborted
    /\ life[s] = "live" /\ apc[s] = "idle" /\ ~retired(s)
    /\ free_image_semaphore[s] > 0
    /\ acquires < MaxAcquires
    /\ acquires' = acquires + 1
    /\ free_image_semaphore' = [ free_image_semaphore EXCEPT ![s] = @ - 1 ]
    /\ apc' = [ apc EXCEPT ![s] = "acquire" ]
    /\ ret' = NoRet
    /\ UNCHANGED << life, status, ringVars, page_flip_semaphore,
                    start_present_semaphore, flagVars, linkVars, workerVars,
                    aIdx, aTook, aWait, fence_failures, ghostVars, aborted >>
    /\ UNCHANGED aRes
    /\ UNCHANGED callVars

\* acquire_next_image called on a swapchain that has been passed as
\* oldSwapchain (a call Vulkan forbids and the layer does not reject):
\* wait_for_free_buffer succeeds on a count the semaphore still holds.
acquire_next_image_wait_retired(s) ==
    /\ ~aborted
    /\ life[s] = "live" /\ apc[s] = "idle" /\ retired(s)
    /\ free_image_semaphore[s] > 0
    /\ acquires < MaxAcquires
    /\ acquires' = acquires + 1
    /\ free_image_semaphore' = [ free_image_semaphore EXCEPT ![s] = @ - 1 ]
    /\ apc' = [ apc EXCEPT ![s] = "acquire" ]
    /\ ret' = NoRet
    /\ UNCHANGED << life, status, ringVars, page_flip_semaphore,
                    start_present_semaphore, flagVars, linkVars, workerVars,
                    aIdx, aTook, aWait, fence_failures, ghostVars, aborted >>
    /\ UNCHANGED aRes
    /\ UNCHANGED callVars

\* What the platform's get_free_buffer hands back when it fails.
get_free_buffer_failure == "ERROR_SURFACE_LOST"

\* The results with which wait_for_free_buffer does not succeed: the
\* semaphore's VK_NOT_READY (timeout 0) and VK_TIMEOUT, and the result of a
\* failed get_free_buffer.
wait_for_free_buffer_failures ==
    { "NOT_READY", "TIMEOUT", get_free_buffer_failure }

\* Faulty variant of acquire_next_image_timeout: the result of the wait is
\* not looked at, the call goes on to the scan.
acquire_next_image_timeout_ignored(s) ==
    /\ ~aborted
    /\ life[s] = "live" /\ apc[s] = "idle" /\ ~retired(s)
    /\ free_image_semaphore[s] = 0
    /\ acquires < MaxAcquires
    /\ acquires' = acquires + 1
    /\ apc' = [ apc EXCEPT ![s] = "acquire" ]
    /\ ret' = NoRet
    /\ UNCHANGED << life, status, ringVars, semVars, flagVars, linkVars,
                    workerVars, aIdx, aTook, aWait, fence_failures, ghostVars,
                    aborted >>
    /\ UNCHANGED aRes
    /\ UNCHANGED callVars

\* wait_for_free_buffer does not succeed: no count is available within the
\* timeout, or get_free_buffer fails after the poll found no count.  The
\* result goes back to the caller of acquire_next_image as it is.
acquire_next_image_timeout(s) ==
    /\ ~aborted
    /\ life[s] = "live" /\ apc[s] = "idle" /\ ~retired(s)
    /\ free_image_semaphore[s] = 0
    /\ \E r \in wait_for_free_buffer_failures :
           ret' = Returned(s, "acquire_next_image", r, NoImg)
    /\ unobserved' = [ unobserved EXCEPT ![s] = FALSE ]
    /\ UNCHANGED << life, status, ringVars, semVars, flagVars, linkVars,
                    workerVars, appVars, budgetVars, destroyed, aborted >>
    /\ UNCHANGED callVars

\* The rest of acquire_next_image after the wait: the validity check, the
\* scan and assert(i < m_num_swapchain_images).  When the scan finds nothing,
\* a debug build aborts and a release build returns VK_SUCCESS with
\* *image_index not written.
acquire_next_image_scan(s) ==
    /\ ~aborted
    /\ apc[s] = "acquire"
    /\ apc' = [ apc EXCEPT ![s] = "idle" ]
    /\ IF ~is_valid[s]
       THEN /\ ret' = Returned(s, "acquire_next_image", "OUT_OF_HOST_MEMORY", NoImg)
            /\ UNCHANGED << status, aborted >>
       ELSE IF acquire_scan(status[s]) < NumImages
       THEN /\ status' = [ status EXCEPT ![s][acquire_scan(status[s])] = "ACQUIRED" ]
            /\ ret' = Returned(s, "acquire_next_image", "SUCCESS",
                            acquire_scan(status[s]))
            /\ UNCHANGED aborted
       ELSE /\ \E debug \in BOOLEAN :
                 /\ aborted' = debug
                 /\ ret' = IF debug THEN NoRet
                           ELSE Returned(s, "acquire_next_image", "SUCCESS", NoImg)
            /\ UNCHANGED status
    /\ unobserved' = [ unobserved EXCEPT ![s] = FALSE ]
    /\ UNCHANGED << life, ringVars, semVars, flagVars, linkVars, workerVars,
                    aIdx, aTook, aWait, budgetVars, destroyed >>
    /\ UNCHANGED aRes
    /\ UNCHANGED callVars

----------------------------------------------------------------------------
(* queue_present.                                                          *)

\* Faulty variant of queue_present_error_result: every failure is reported as
\* a lost device.
queue_present_error_result_device_lost(result) == "ERROR_DEVICE_LOST"

\* What queue_present returns when a device call failed: that call's result.
queue_present_error_result(result) == result

\* Entry of queue_present(image_index = i): the loop over the descendant's
\* images, up to the device calls.  The caller presents an image it holds.
queue_present_entry(s, i) ==
    /\ ~aborted
    /\ life[s] = "live" /\ apc[s] = "idle"
    /\ status[s][i] = "ACQUIRED"
    /\ apc' = [ apc EXCEPT ![s] = "present" ]
    /\ aIdx' = [ aIdx EXCEPT ![s] = i ]
    /\ aTook' = [ aTook EXCEPT ![s] =
                    /\ descendant[s] # NoSC
                    /\ descendant_started_presenting(status[descendant[s]]) ]
    /\ ret' = NoRet
    /\ UNCHANGED << life, status, ringVars, semVars, flagVars, linkVars,
                    workerVars, aWait, budgetVars, ghostVars, aborted >>
    /\ UNCHANGED aRes
    /\ UNCHANGED callVars

\* ResetFences or QueueSubmit returns an error: `result` holds it.
queue_present_device_error(s) ==
    /\ ~aborted
    /\ apc[s] = "present"
    /\ \E r \in DeviceErrors : aRes' = [ aRes EXCEPT ![s] = r ]
    /\ apc' = [ apc EXCEPT ![s] = "present_failed" ]
    /\ ret' = NoRet
    /\ UNCHANGED << life, status, ringVars, semVars, flagVars, linkVars,
                    workerVars, aIdx, aTook, aWait, budgetVars, ghostVars,
                    aborted >>
    /\ UNCHANGED callVars

\* `if (result != VK_SUCCESS) return result;` after the device call.
queue_present_return_result(s) ==
    /\ ~aborted
    /\ apc[s] = "present_failed"
    /\ apc' = [ apc EXCEPT ![s] = "idle" ]
    /\ aIdx' = [ aIdx EXCEPT ![s] = NoImg ]
    /\ aTook' = [ aTook EXCEPT ![s] = FALSE ]
    /\ aRes' = [ aRes EXCEPT ![s] = NoResult ]
    /\ ret' = Returned(s, "queue_present", queue_present_error_result(aRes[s]),
                       aIdx[s])
    /\ UNCHANGED << life, status, ringVars, semVars, flagVars, linkVars,
                    workerVars, aWait, budgetVars, ghostVars, aborted >>
    /\ UNCHANGED callVars

\* Both device calls succeeded: the status write, the enqueue at the tail and
\* the post of the page-flip semaphore.
queue_present_submit(s) ==
    /\ ~aborted
    /\ apc[s] = "present"
    /\ apc' = [ apc EXCEPT ![s] = "idle" ]
    /\ aIdx' = [ aIdx EXCEPT ![s] = NoImg ]
    /\ aTook' = [ aTook EXCEPT ![s] = FALSE ]
    /\ status' = [ status EXCEPT ![s][aIdx[s]] = queue_present_status(aTook[s]) ]
    /\ ring' = [ ring EXCEPT ![s] = ring_enqueue(ring[s], tail[s], aIdx[s]) ]
    /\ tail' = [ tail EXCEPT ![s] = ring_next(tail[s]) ]
    /\ pend' = [ pend EXCEPT ![s] = Append(@, << aIdx[s], aTook[s] >>) ]
    /\ page_flip_semaphore' = [ page_flip_semaphore EXCEPT ![s] = @ + 1 ]
    /\ ret' = Returned(s, "queue_present", queue_present_result(aTook[s]), aIdx[s])
    /\ UNCHANGED << life, head, free_image_semaphore, start_present_semaphore,
                    flagVars, linkVars, workerVars, aWait, budgetVars,
                    ghostVars, aborted >>
    /\ UNCHANGED aRes
    /\ UNCHANGED callVars

----------------------------------------------------------------------------
(* page_flip_thread.                                                       *)

\* The run flag is cleared: the loop breaks.
page_flip_thread_exit(s) ==
    /\ ~aborted
    /\ wpc[s] = "loop" /\ ~page_flip_thread_run[s]
    /\ wpc' = [ wpc EXCEPT ![s] = "exited" ]
    /\ ret' = NoRet
    /\ UNCHANGED << life, status, ringVars, semVars, flagVars, linkVars,
                    wIdx, wTook, wWait, appVars, budgetVars, ghostVars, aborted >>
    /\ UNCHANGED callVars

\* Faulty variant of page_flip_thread_dequeue: the page-flip semaphore is not
\* waited for.
page_flip_thread_dequeue_unsignalled(s) ==
    /\ ~aborted
    /\ wpc[s] = "loop" /\ page_flip_thread_run[s]
    /\ \E idx \in ring_front(ring[s], head[s]) : wIdx' = [ wIdx EXCEPT ![s] = idx ]
    /\ ring' = [ ring EXCEPT ![s] = ring_dequeue(ring[s], head[s]) ]
    /\ head' = [ head EXCEPT ![s] = ring_next(head[s]) ]
    /\ pend' = [ pend EXCEPT ![s] = IF @ = << >> THEN @ ELSE Tail(@) ]
    /\ wTook' = [ wTook EXCEPT ![s] = pend[s] # << >> /\ Head(pend[s])[2] ]
    /\ wpc' = [ wpc EXCEPT ![s] = "fence" ]
    /\ ret' = NoRet
    /\ UNCHANGED << life, status, tail, free_image_semaphore,
                    page_flip_semaphore,
                    start_present_semaphore, flagVars, linkVars, wWait,
                    appVars, budgetVars, ghostVars, aborted >>
    /\ UNCHANGED callVars

\* m_page_flip_semaphore.wait(0) succeeds: the entry at the head is taken and
\* the head advances.  (VK_NOT_READY goes round the loop and changes nothing.)
page_flip_thread_dequeue(s) ==
    /\ ~aborted
    /\ wpc[s] = "loop" /\ page_flip_thread_run[s]
    /\ page_flip_semaphore[s] > 0
    /\ page_flip_semaphore' = [ page_flip_semaphore EXCEPT ![s] = @ - 1 ]
    /\ \E idx \in ring_front(ring[s], head[s]) : wIdx' = [ wIdx EXCEPT ![s] = idx ]
    /\ ring' = [ ring EXCEPT ![s] = ring_dequeue(ring[s], head[s]) ]
    /\ head' = [ head EXCEPT ![s] = ring_next(head[s]) ]
    /\ pend' = [ pend EXCEPT ![s] = IF @ = << >> THEN @ ELSE Tail(@) ]
    /\ wTook' = [ wTook EXCEPT ![s] = pend[s] # << >> /\ Head(pend[s])[2] ]
    /\ wpc' = [ wpc EXCEPT ![s] = "fence" ]
    /\ ret' = NoRet
    /\ UNCHANGED << life, status, tail, free_image_semaphore,
                    start_present_semaphore, flagVars, linkVars, wWait,
                    appVars, budgetVars, ghostVars, aborted >>
    /\ UNCHANGED callVars

\* Faulty variant of page_flip_thread_fence_failed: m_is_valid is not cleared.
page_flip_thread_fence_failed_stays_valid(s) ==
    /\ ~aborted
    /\ wpc[s] = "fence"
    /\ fence_failures < MaxFenceFailures
    /\ fence_failures' = fence_failures + 1
    /\ free_image_semaphore' = [ free_image_semaphore EXCEPT ![s] = @ + 1 ]
    /\ wpc' = [ wpc EXCEPT ![s] = "loop" ]
    /\ wIdx' = [ wIdx EXCEPT ![s] = NoImg ]
    /\ wTook' = [ wTook EXCEPT ![s] = FALSE ]
    /\ unobserved' = [ unobserved EXCEPT ![s] = TRUE ]
    /\ ret' = NoRet
    /\ UNCHANGED << life, status, ringVars, page_flip_semaphore,
                    start_present_semaphore, flagVars, linkVars, wWait,
                    appVars, acquires, destroyed, aborted >>
    /\ UNCHANGED callVars

\* WaitForFences returns an error.
page_flip_thread_fence_failed(s) ==
    /\ ~aborted
    /\ wpc[s] = "fence"
    /\ fence_failures < MaxFenceFailures
    /\ fence_failures' = fence_failures + 1
    /\ is_valid' = [ is_valid EXCEPT ![s] = FALSE ]
    /\ free_image_semaphore' = [ free_image_semaphore EXCEPT ![s] = @ + 1 ]
    /\ wpc' = [ wpc EXCEPT ![s] = "loop" ]
    /\ wIdx' = [ wIdx EXCEPT ![s] = NoImg ]
    /\ wTook' = [ wTook EXCEPT ![s] = FALSE ]
    /\ unobserved' = [ unobserved EXCEPT ![s] = TRUE ]
    /\ ret' = NoRet
    /\ UNCHANGED << life, status, ringVars, page_flip_semaphore,
                    start_present_semaphore, first_present,
                    page_flip_thread_run, linkVars, wWait, appVars, acquires,
                    destroyed, aborted >>
    /\ UNCHANGED callVars

\* WaitForFences succeeded and the image is FREE: it is destroyed and the
\* free-image semaphore posted.
page_flip_thread_reclaim(s) ==
    /\ ~aborted
    /\ wpc[s] = "fence"
    /\ status[s][wIdx[s]] = "FREE"
    /\ status' = [ status EXCEPT ![s][wIdx[s]] = destroy_image_status ]
    /\ destroyed' = [ destroyed EXCEPT ![s] = @ \cup { wIdx[s] } ]
    /\ free_image_semaphore' = [ free_image_semaphore EXCEPT ![s] = @ + 1 ]
    /\ wpc' = [ wpc EXCEPT ![s] = "loop" ]
    /\ wIdx' = [ wIdx EXCEPT ![s] = NoImg ]
    /\ wTook' = [ wTook EXCEPT ![s] = FALSE ]
    /\ ret' = NoRet
    /\ UNCHANGED << life, ringVars, page_flip_semaphore,
                    start_present_semaphore, flagVars, linkVars, wWait,
                    appVars, budgetVars, unobserved, aborted >>
    /\ UNCHANGED callVars

\* WaitForFences succeeded, the image is not FREE and the swapchain has
\* presented before: present_image(pending_index).
page_flip_thread_present(s) ==
    /\ ~aborted
    /\ wpc[s] = "fence"
    /\ status[s][wIdx[s]] # "FREE"
    /\ ~first_present[s]
    /\ status' = [ status EXCEPT ![s] = present_image_status(@, descendant[s], wIdx[s]) ]
    /\ free_image_semaphore' = [ free_image_semaphore EXCEPT ![s] =
           unpresent_image_semaphore(@, present_image_displaced(status[s], wIdx[s])) ]
    /\ destroyed' = [ destroyed EXCEPT ![s] = @ \cup
           unpresent_image_destroys(descendant[s],
                                    present_image_displaced(status[s], wIdx[s])) ]
    /\ wpc' = [ wpc EXCEPT ![s] = "loop" ]
    /\ wIdx' = [ wIdx EXCEPT ![s] = NoImg ]
    /\ wTook' = [ wTook EXCEPT ![s] = FALSE ]
    /\ ret' = NoRet
    /\ UNCHANGED << life, ringVars, page_flip_semaphore,
                    start_present_semaphore, flagVars, linkVars, wWait,
                    appVars, budgetVars, unobserved, aborted >>
    /\ UNCHANGED callVars

\* Faulty variant of page_flip_thread_first: the ancestor is not waited for.
page_flip_thread_first_no_wait(s) ==
    /\ ~aborted
    /\ wpc[s] = "fence"
    /\ status[s][wIdx[s]] # "FREE"
    /\ first_present[s]
    /\ wpc' = [ wpc EXCEPT ![s] = "start_present" ]
    /\ ret' = NoRet
    /\ UNCHANGED << life, status, ringVars, semVars, flagVars, linkVars,
                    wIdx, wWait, wTook, appVars, budgetVars, ghostVars, aborted >>
    /\ UNCHANGED callVars

\* WaitForFences succeeded, the image is not FREE and this is the first
\* present: with an ancestor, wait_for_pending_buffers() of the ancestor is
\* entered (it counts the ACQUIRED images and sets wait).
page_flip_thread_first(s) ==
    /\ ~aborted
    /\ wpc[s] = "fence"
    /\ status[s][wIdx[s]] # "FREE"
    /\ first_present[s]
    /\ IF ancestor[s] # NoSC /\ pending_wait_count(status[ancestor[s]]) > 0
       THEN /\ wWait' = [ wWait EXCEPT ![s] = pending_wait_count(status[ancestor[s]]) ]
            /\ wpc' = [ wpc EXCEPT ![s] = "wait_ancestor" ]
       ELSE /\ wpc' = [ wpc EXCEPT ![s] = "start_present" ]
            /\ UNCHANGED wWait
    /\ ret' = NoRet
    /\ UNCHANGED << life, status, ringVars, semVars, flagVars, linkVars,
                    wIdx, wTook, appVars, budgetVars, ghostVars, aborted >>
    /\ UNCHANGED callVars

\* One round of the loop of the ancestor's wait_for_pending_buffers, run by
\* the worker of s: wait_for_free_buffer(UINT64_MAX) on the ancestor returns.
\* An ancestor whose teardown has returned is freed memory: the wait on it
\* may return or not.
page_flip_thread_wait_ancestor(s) ==
    /\ ~aborted
    /\ wpc[s] = "wait_ancestor"
    /\ IF life[ancestor_local(s)] = "live"
       THEN /\ free_image_semaphore[ancestor_local(s)] > 0
            /\ free_image_semaphore' =
                   [ free_image_semaphore EXCEPT ![ancestor_local(s)] = @ - 1 ]
       ELSE UNCHANGED free_image_semaphore
    /\ wWait' = [ wWait EXCEPT ![s] = @ - 1 ]
    /\ wpc' = [ wpc EXCEPT ![s] =
                  IF wWait[s] > 1 THEN "wait_ancestor" ELSE "start_present" ]
    /\ ret' = NoRet
    /\ UNCHANGED << life, status, ringVars, page_flip_semaphore,
                    start_present_semaphore, flagVars, linkVars, wIdx, wTook,
                    appVars, budgetVars, ghostVars, aborted >>
    /\ UNCHANGED callVars

\* sem_post(&m_start_present_semaphore); present_image(pending_index);
\* m_first_present = false.
page_flip_thread_start_present(s) ==
    /\ ~aborted
    /\ wpc[s] = "start_present"
    /\ start_present_semaphore' = [ start_present_semaphore EXCEPT ![s] = @ + 1 ]
    /\ status' = [ status EXCEPT ![s] = present_image_status(@, descendant[s], wIdx[s]) ]
    /\ free_image_semaphore' = [ free_image_semaphore EXCEPT ![s] =
           unpresent_image_semaphore(@, present_image_displaced(status[s], wIdx[s])) ]
    /\ destroyed' = [ destroyed EXCEPT ![s] = @ \cup
           unpresent_image_destroys(descendant[s],
                                    present_image_displaced(status[s], wIdx[s])) ]
    /\ first_present' = [ first_present EXCEPT ![s] = FALSE ]
    /\ wpc' = [ wpc EXCEPT ![s] = "loop" ]
    /\ wIdx' = [ wIdx EXCEPT ![s] = NoImg ]
    /\ wTook' = [ wTook EXCEPT ![s] = FALSE ]
    /\ ret' = NoRet
    /\ UNCHANGED << life, ringVars, page_flip_semaphore, is_valid,
                    page_flip_thread_run, linkVars, wWait, appVars,
                    budgetVars, unobserved, aborted >>
    /\ UNCHANGED callVars

----------------------------------------------------------------------------
(* teardown.                                                               *)

\* Entry of teardown: the loop over the descendant's images, and otherwise
\* the entry of wait_for_pending_buffers() on the swapchain itself.
teardown_begin(s) ==
    /\ ~aborted
    /\ life[s] = "live" /\ apc[s] = "idle"
    /\ IF descendant[s] # NoSC /\ descendant_started_presenting(status[descendant[s]])
       THEN /\ apc' = [ apc EXCEPT ![s] = "teardown_wait_descendant" ]
            /\ UNCHANGED aWait
       ELSE IF pending_wait_count(status[s]) > 0
       THEN /\ apc' = [ apc EXCEPT ![s] = "teardown_wait_pending" ]
            /\ aWait' = [ aWait EXCEPT ![s] = pending_wait_count(status[s]) ]
       ELSE /\ apc' = [ apc EXCEPT ![s] = "teardown_idle" ]
            /\ UNCHANGED aWait
    /\ ret' = NoRet
    /\ UNCHANGED << life, status, ringVars, semVars, flagVars, linkVars,
                    workerVars, aIdx, aTook, budgetVars, ghostVars, aborted >>
    /\ UNCHANGED aRes
    /\ UNCHANGED callVars

\* sem_wait(&desc->m_start_present_semaphore) returns.  A descendant whose
\* teardown has returned has destroyed the semaphore: the wait on it may
\* return or not.
teardown_wait_descendant(s) ==
    /\ ~aborted
    /\ apc[s] = "teardown_wait_descendant"
    /\ IF life[descendant_local(s)] = "live"
       THEN /\ start_present_semaphore[descendant_local(s)] > 0
            /\ start_present_semaphore' =
                   [ start_present_semaphore EXCEPT ![descendant_local(s)] = @ - 1 ]
       ELSE UNCHANGED start_present_semaphore
    /\ apc' = [ apc EXCEPT ![s] = "teardown_idle" ]
    /\ ret' = NoRet
    /\ UNCHANGED << life, status, ringVars, free_image_semaphore,
                    page_flip_semaphore, flagVars, linkVars, workerVars,
                    aIdx, aTook, aWait, budgetVars, ghostVars, aborted >>
    /\ UNCHANGED aRes
    /\ UNCHANGED callVars

\* One round of the loop of wait_for_pending_buffers(), run by teardown.
teardown_wait_pending(s) ==
    /\ ~aborted
    /\ apc[s] = "teardown_wait_pending"
    /\ free_image_semaphore[s] > 0
    /\ free_image_semaphore' = [ free_image_semaphore EXCEPT ![s] = @ - 1 ]
    /\ aWait' = [ aWait EXCEPT ![s] = @ - 1 ]
    /\ apc' = [ apc EXCEPT ![s] =
                  IF aWait[s] > 1 THEN "teardown_wait_pending" ELSE "teardown_idle" ]
    /\ ret' = NoRet
    /\ UNCHANGED << life, status, ringVars, page_flip_semaphore,
                    start_present_semaphore, flagVars, linkVars, workerVars,
                    aIdx, aTook, budgetVars, ghostVars, aborted >>
    /\ UNCHANGED aRes
    /\ UNCHANGED callVars

\* QueueWaitIdle returned: m_page_flip_thread_run = false, then join.
teardown_stop_thread(s) ==
    /\ ~aborted
    /\ apc[s] = "teardown_idle"
    /\ page_flip_thread_run' = [ page_flip_thread_run EXCEPT ![s] = FALSE ]
    /\ apc' = [ apc EXCEPT ![s] = "teardown_join" ]
    /\ ret' = NoRet
    /\ UNCHANGED << life, status, ringVars, semVars, is_valid, first_present,
                    linkVars, workerVars, aIdx, aTook, aWait, budgetVars,
                    ghostVars, aborted >>
    /\ UNCHANGED aRes
    /\ UNCHANGED callVars

\* Faulty variant of teardown_finish: the worker is not joined.
teardown_finish_no_join(s) ==
    /\ ~aborted
    /\ apc[s] = "teardown_join"
    /\ ancestor' = [ t \in SC |->
           IF t = s \/ (descendant[s] # NoSC /\ t = descendant[s])
           THEN NoSC ELSE ancestor[t] ]
    /\ descendant' = [ t \in SC |->
           IF t = s \/ (ancestor[s] # NoSC /\ t = ancestor[s])
           THEN NoSC ELSE descendant[t] ]
    /\ status' = [ status EXCEPT ![s] = teardown_status(@) ]
    /\ destroyed' = [ destroyed EXCEPT ![s] = Img ]
    /\ life' = [ life EXCEPT ![s] = "dead" ]
    /\ apc' = [ apc EXCEPT ![s] = "done" ]
    /\ ret' = Returned(s, "teardown", "none", NoImg)
    \* The object is gone: what its memory held no longer is state.
    /\ ring' = [ ring EXCEPT ![s] = [ i \in Img |-> NoImg ] ]
    /\ head' = [ head EXCEPT ![s] = 0 ]
    /\ tail' = [ tail EXCEPT ![s] = 0 ]
    /\ pend' = [ pend EXCEPT ![s] = << >> ]
    /\ free_image_semaphore' = [ free_image_semaphore EXCEPT ![s] = 0 ]
    /\ page_flip_semaphore' = [ page_flip_semaphore EXCEPT ![s] = 0 ]
    /\ start_present_semaphore' = [ start_present_semaphore EXCEPT ![s] = 0 ]
    /\ is_valid' = [ is_valid EXCEPT ![s] = FALSE ]
    /\ UNCHANGED << first_present, page_flip_thread_run, workerVars, aIdx,
                    aTook, aWait, budgetVars, unobserved, aborted >>
    /\ UNCHANGED aRes
    /\ UNCHANGED callVars

\* Faulty variant of teardown_finish: clear_ancestor and clear_descendant are
\* not called on the swapchains left behind.
teardown_finish_keeps_links(s) ==
    /\ ~aborted
    /\ apc[s] = "teardown_join"
    /\ wpc[s] = "exited"
    /\ ancestor' = [ ancestor EXCEPT ![s] = NoSC ]
    /\ descendant' = [ descendant EXCEPT ![s] = NoSC ]
    /\ status' = [ status EXCEPT ![s] = teardown_status(@) ]
    /\ destroyed' = [ destroyed EXCEPT ![s] = Img ]
    /\ life' = [ life EXCEPT ![s] = "dead" ]
    /\ apc' = [ apc EXCEPT ![s] = "done" ]
    /\ ret' = Returned(s, "teardown", "none", NoImg)
    \* The object is gone: what its memory held no longer is state.
    /\ ring' = [ ring EXCEPT ![s] = [ i \in Img |-> NoImg ] ]
    /\ head' = [ head EXCEPT ![s] = 0 ]
    /\ tail' = [ tail EXCEPT ![s] = 0 ]
    /\ pend' = [ pend EXCEPT ![s] = << >> ]
    /\ free_image_semaphore' = [ free_image_semaphore EXCEPT ![s] = 0 ]
    /\ page_flip_semaphore' = [ page_flip_semaphore EXCEPT ![s] = 0 ]
    /\ start_present_semaphore' = [ start_present_semaphore EXCEPT ![s] = 0 ]
    /\ is_valid' = [ is_valid EXCEPT ![s] = FALSE ]
    /\ UNCHANGED << first_present, page_flip_thread_run, workerVars, aIdx,
                    aTook, aWait, budgetVars, unobserved, aborted >>
    /\ UNCHANGED aRes
    /\ UNCHANGED callVars

\* join returned: the one-shot is destroyed, the links are cleared on both
\* sides, every image is destroyed, array and ring are freed.
teardown_finish(s) ==
    /\ ~aborted
    /\ apc[s] = "teardown_join"
    /\ wpc[s] = "exited"
    /\ ancestor' = [ t \in SC |->
           IF t = s \/ (descendant[s] # NoSC /\ t = descendant[s])
           THEN NoSC ELSE ancestor[t] ]
    /\ descendant' = [ t \in SC |->
           IF t = s \/ (ancestor[s] # NoSC /\ t = ancestor[s])
           THEN NoSC ELSE descendant[t] ]
    /\ status' = [ status EXCEPT ![s] = teardown_status(@) ]
    /\ destroyed' = [ destroyed EXCEPT ![s] = Img ]
    /\ life' = [ life EXCEPT ![s] = "dead" ]
    /\ apc' = [ apc EXCEPT ![s] = "done" ]
    /\ ret' = Returned(s, "teardown", "none", NoImg)
    \* The object is gone: what its memory held no longer is state.
    /\ ring' = [ ring EXCEPT ![s] = [ i \in Img |-> NoImg ] ]
    /\ head' = [ head EXCEPT ![s] = 0 ]
    /\ tail' = [ tail EXCEPT ![s] = 0 ]
    /\ pend' = [ pend EXCEPT ![s] = << >> ]
    /\ free_image_semaphore' = [ free_image_semaphore EXCEPT ![s] = 0 ]
    /\ page_flip_semaphore' = [ page_flip_semaphore EXCEPT ![s] = 0 ]
    /\ start_present_semaphore' = [ start_present_semaphore EXCEPT ![s] = 0 ]
    /\ is_valid' = [ is_valid EXCEPT ![s] = FALSE ]
    /\ UNCHANGED << first_present, page_flip_thread_run, workerVars, aIdx,
                    aTook, aWait, budgetVars, unobserved, aborted >>
    /\ UNCHANGED aRes
    /\ UNCHANGED callVars

----------------------------------------------------------------------------
(* get_swapchain_images.                                                   *)

\* m_swapchain_images[i].image: the handle of image i, distinct per image.
image_handle(i) == << "VkImage", i >>

Min(a, b) == IF a < b THEN a ELSE b

\* What a call is made with: the image count of the swapchain, whether
\* swapchain_images is non-null, and *swapchain_image_count.
ImagesRequests ==
    [ op : { "get_swapchain_images" }, image_count : 1..MaxImageCount,
      array : BOOLEAN, count : 0..MaxRequested ]

\* What a call leaves: its result, *swapchain_image_count and the handles it
\* wrote to swapchain_images, in the order of their slots.
ImagesReply(r, c, w) ==
    [ op |-> "get_swapchain_images", result |-> r, count |-> c, images |-> w ]

\* Faulty variant of copied_all: the loop never sees that it has copied
\* every image.
copied_all_never(current_image, n) == FALSE

\* if (current_image == m_num_swapchain_images)
copied_all(current_image, n) == current_image = n

\* The do-while of get_swapchain_images from current_image on: written is
\* what the earlier rounds put into swapchain_images.
RECURSIVE copy_images(_, _, _, _)
copy_images(n, c, current_image, written) ==
    LET w == Append(written, image_handle(current_image))
        next == current_image + 1
    IN  IF copied_all(next, n) THEN ImagesReply("SUCCESS", next, w)
        ELSE IF next < c THEN copy_images(n, c, next, w)
        ELSE ImagesReply("INCOMPLETE", next, w)

\* The call.  With a non-null array and a count of 0,
\* assert(*swapchain_image_count > 0) stops a debug build; a release build
\* runs the body of the do-while once.
get_swapchain_images ==
    /\ images_request # NoCall /\ images_reply = NoCall
    /\ IF ~images_request.array
       THEN images_reply' = ImagesReply("SUCCESS", images_request.image_count, << >>)
       ELSE \E debug \in BOOLEAN :
              images_reply' =
                 IF debug /\ images_request.count = 0
                 THEN ImagesReply("aborted", images_request.count, << >>)
                 ELSE copy_images(images_request.image_count,
                                  images_request.count, 0, << >>)
    /\ UNCHANGED << swapchainVars, allocVars, newVars, images_request >>

----------------------------------------------------------------------------
(* The buffer allocator: wsialloc_helpers.c and its two kernel adaptors.   *)

\* Default alignment of a row, in bytes.
WSIALLOCP_MIN_ALIGN_SZ == 64

\* Maximum image size allowed for each dimension.
MAX_IMAGE_SIZE == 128000

\* The number of plane slots of a result (local_fds has one entry for each).
WSIALLOC_MAX_PLANES == 4

\* The width in bits of info->width, info->height and of the arithmetic on
\* them (uint32_t in wsialloc.h).
DimensionBits == 32

\* A byte count that may not fit 31 bits is kept as << q, r >>, standing for
\* q * WSIALLOCP_MIN_ALIGN_SZ + r with r < WSIALLOCP_MIN_ALIGN_SZ.
Wide(q, r) == << q + r \div WSIALLOCP_MIN_ALIGN_SZ, r % WSIALLOCP_MIN_ALIGN_SZ >>

WideZero == << 0, 0 >>

\* a * b as the exact integer.
WideProduct(a, b) ==
    Wide((a \div WSIALLOCP_MIN_ALIGN_SZ) * b, (a % WSIALLOCP_MIN_ALIGN_SZ) * b)

WideSum(x, y) == Wide(x[1] + y[1], x[2] + y[2])

\* A value reduced to an unsigned integer of the given number of bits.
WideWrap(x, bits) == << x[1] % (2 ^ (bits - 6)), x[2] >>

\* (size + WSIALLOCP_MIN_ALIGN_SZ - 1) & ~(WSIALLOCP_MIN_ALIGN_SZ - 1).  The
\* mask is an unsigned int; every size it is applied to is below 2^31.
round_size_up_to_align(size) ==
    (size + WSIALLOCP_MIN_ALIGN_SZ - 1)
        - ((size + WSIALLOCP_MIN_ALIGN_SZ - 1) % WSIALLOCP_MIN_ALIGN_SZ)

\* A DRM fourcc: its code and the DRM_FORMAT_BIG_ENDIAN bit.
Fourcc(code, big_endian) == [ code |-> code, big_endian |-> big_endian ]

\* fourcc_format_table of format_table.h: drm_format, nr_planes, bpp[].
fourcc_format_table ==
    << [ drm_format |-> Fourcc("RG16", FALSE), nr_planes |-> 1,
         bpp |-> << 16, 0, 0, 0 >> ],
       [ drm_format |-> Fourcc("XR24", FALSE), nr_planes |-> 1,
         bpp |-> << 32, 0, 0, 0 >> ],
       [ drm_format |-> Fourcc("AB4H", FALSE), nr_planes |-> 1,
         bpp |-> << 64, 0, 0, 0 >> ],
       [ drm_format |-> Fourcc("NV12", FALSE), nr_planes |-> 2,
         bpp |-> << 8, 16, 0, 0 >> ] >>

\* A wsialloc_format as a caller supplies it.
Format(code, big_endian, modifier) ==
    [ fourcc |-> Fourcc(code, big_endian), modifier |-> modifier ]

\* The candidates requests are made of: known and unknown fourccs, with and
\* without the big-endian bit, linear and not, one plane and two.
Candidates ==
    { Format("XR24", FALSE, "LINEAR"), Format("XR24", TRUE, "LINEAR"),
      Format("XR24", FALSE, "AFBC"), Format("RG16", FALSE, "LINEAR"),
      Format("AB4H", FALSE, "LINEAR"), Format("NV12", FALSE, "LINEAR"),
      Format("????", FALSE, "LINEAR") }

\* The longest format list of a request.
MaxFormats == 2

FormatLists == UNION { [ 1..n -> Candidates ] : n \in 0..MaxFormats }

\* The widths and heights of requests: the limits of the valid range, a
\* width that needs padding, and sizes whose product passes 2^32.
Widths == { 0, 1, 17, 32768, MAX_IMAGE_SIZE, MAX_IMAGE_SIZE + 1 }
Heights == { 0, 1, 32768, 32769, MAX_IMAGE_SIZE, MAX_IMAGE_SIZE + 1 }

\* The allocators wsialloc_new makes (neither adaptor ever has a protected
\* heap), and the null pointer.
NullAllocator == [ kind |-> "NULL" ]
DmaBufHeapsAllocator ==
    [ kind |-> "dma_buf_heaps", memory_fd |-> 3, protected_fd |-> -1 ]
IonAllocator ==
    [ kind |-> "ion", fd |-> 3, alloc_heap_id |-> 0,
      protected_heap_exists |-> FALSE ]
Allocators == { NullAllocator, DmaBufHeapsAllocator, IonAllocator }

\* The arguments of a call: the allocator, *info (formats may be a null
\* pointer, whatever format_count says) and whether result is non-null.
Request(a, res, null, n, fl, w, h, fs) ==
    [ op |-> "wsialloc_alloc", allocator |-> a, result |-> res,
      formats_null |-> null, format_count |-> n, formats |-> fl,
      width |-> w, height |-> h, flags |-> fs ]

AllocFlags == SUBSET { "PROTECTED", "NO_MEMORY" }

\* The requests: every format list, size and flag with valid pointers, and
\* every combination of null pointers with the shortest lists.
AllocRequests ==
    { Request(a, TRUE, FALSE, Len(fl), fl, w, h, fs) :
        a \in Allocators \ { NullAllocator }, fl \in FormatLists,
        w \in Widths, h \in Heights, fs \in AllocFlags }
    \cup
    { Request(a, res, FALSE, Len(fl), fl, w, 1, fs) :
        a \in Allocators, res \in BOOLEAN,
        fl \in { f \in FormatLists : Len(f) <= 1 },
        w \in { 1, MAX_IMAGE_SIZE + 1 }, fs \in AllocFlags }
    \cup
    { Request(a, res, TRUE, n, << >>, 1, 1, fs) :
        a \in Allocators, res \in BOOLEAN, n \in 0..1, fs \in AllocFlags }

\* What the caller's wsialloc_allocate_result holds before the call.
caller_result ==
    [ format |-> Format("stale", FALSE, "stale"),
      average_row_strides |-> [ p \in 1..WSIALLOC_MAX_PLANES |-> -7 ],
      offsets |-> [ p \in 1..WSIALLOC_MAX_PLANES |-> << 0, 7 >> ],
      buffer_fds |-> [ p \in 1..WSIALLOC_MAX_PLANES |-> -7 ],
      is_disjoint |-> TRUE ]

\* What the kernel's allocation ioctl can give: an error, or a new
\* descriptor.
KernelResults == { -12, -1, 7 }

\* The plane loop of calculate_format_properties from plane on (planes are
\* numbered from 1 here): p is what the earlier rounds computed.
RECURSIVE plane_loop(_, _, _, _)
plane_loop(descriptor, info, plane, p) ==
    IF plane > descriptor.format_spec.nr_planes THEN p
    ELSE LET plane_bytes_per_pixel == descriptor.format_spec.bpp[plane] \div 8
             stride == round_size_up_to_align(info.width * plane_bytes_per_pixel)
         IN  plane_loop(descriptor, info, plane + 1,
                 [ p EXCEPT
                     !.strides = Append(@, stride),
                     !.offsets = Append(@, WideWrap(p.total_size, DimensionBits)),
                     !.total_size =
                         WideSum(@, WideWrap(WideProduct(stride, info.height),
                                             DimensionBits)) ])

\* calculate_format_properties: the error, and with NONE the strides, the
\* offsets and *total_size.
calculate_format_properties(descriptor, info) ==
    LET none == [ err |-> "NOT_SUPPORTED", strides |-> << >>,
                  offsets |-> << >>, total_size |-> WideZero ]
    IN  IF descriptor.format.modifier # "LINEAR" THEN none
        ELSE IF descriptor.format_spec.nr_planes > 1 THEN none
        ELSE plane_loop(descriptor, info, 1, [ none EXCEPT !.err = "NONE" ])

\* fourcc & ~DRM_FORMAT_BIG_ENDIAN
mask_big_endian(fourcc) == [ fourcc EXCEPT !.big_endian = FALSE ]

\* find_format: the index of the first entry of the table for the fourcc,
\* 0 for the null pointer.
find_format(fourcc) ==
    LET hits == { i \in 1..Len(fourcc_format_table) :
                    fourcc_format_table[i].drm_format = mask_big_endian(fourcc) }
    IN  IF hits = {} THEN 0
        ELSE CHOOSE i \in hits : \A j \in hits : i <= j

\* Faulty variant of validate_parameters: the upper limit is not checked.
validate_parameters_no_maximum(req) ==
    IF req.allocator.kind = "NULL" THEN FALSE
    ELSE IF ~req.result THEN FALSE
    ELSE IF req.format_count = 0 \/ req.formats_null THEN FALSE
    ELSE IF req.width < 1 \/ req.height < 1 THEN FALSE
    ELSE TRUE

validate_parameters(req) ==
    IF req.allocator.kind = "NULL" THEN FALSE
    ELSE IF ~req.result THEN FALSE
    ELSE IF req.format_count = 0 \/ req.formats_null THEN FALSE
    ELSE IF \/ req.width < 1 \/ req.height < 1
            \/ req.width > MAX_IMAGE_SIZE \/ req.height > MAX_IMAGE_SIZE THEN FALSE
    ELSE TRUE

\* Faulty variant of select_format: the error of a rejected candidate is
\* not kept, and a walk that accepts nothing ends with an empty descriptor.
select_format_error_lost(info, i, err) ==
    LET ok == { k \in i..info.format_count :
                  /\ find_format(info.formats[k].fourcc) # 0
                  /\ calculate_format_properties(
                         [ format |-> info.formats[k],
                           format_spec |-> fourcc_format_table[
                               find_format(info.formats[k].fourcc)] ],
                         info).err = "NONE" }
        first == IF ok = {} THEN 0 ELSE CHOOSE k \in ok : \A j \in ok : k <= j
        descriptor ==
            IF first = 0
            THEN [ format |-> Format("", FALSE, "LINEAR"),
                   format_spec |-> [ drm_format |-> Fourcc("", FALSE),
                                     nr_planes |-> 0, bpp |-> << 0, 0, 0, 0 >> ] ]
            ELSE [ format |-> info.formats[first],
                   format_spec |-> fourcc_format_table[
                       find_format(info.formats[first].fourcc)] ]
        p == calculate_format_properties(descriptor, info)
    IN  [ err |-> "NONE", index |-> first, descriptor |-> descriptor,
          strides |-> p.strides, offsets |-> p.offsets,
          total_size |-> p.total_size ]

\* Faulty variant of select_format: a rejected candidate ends the walk.
select_format_first_only(info, i, err) ==
    IF i > info.format_count THEN [ err |-> err, index |-> 0 ]
    ELSE IF find_format(info.formats[i].fourcc) = 0
    THEN [ err |-> "NOT_SUPPORTED", index |-> 0 ]
    ELSE LET descriptor ==
                 [ format |-> info.formats[i],
                   format_spec |->
                       fourcc_format_table[find_format(info.formats[i].fourcc)] ]
             p == calculate_format_properties(descriptor, info)
         IN  IF p.err # "NONE" THEN [ err |-> p.err, index |-> 0 ]
             ELSE [ err |-> "NONE", index |-> i, descriptor |-> descriptor,
                    strides |-> p.strides, offsets |-> p.offsets,
                    total_size |-> p.total_size ]

\* The loop of wsiallocp_alloc over info->formats from candidate i on, err
\* being what the earlier rounds left.  index is the candidate selected, 0
\* when the loop ends without one.
RECURSIVE select_format(_, _, _)
select_format(info, i, err) ==
    IF i > info.format_count THEN [ err |-> err, index |-> 0 ]
    ELSE IF find_format(info.formats[i].fourcc) = 0
    THEN select_format(info, i + 1, "NOT_SUPPORTED")
    ELSE LET descriptor ==
                 [ format |-> info.formats[i],
                   format_spec |->
                       fourcc_format_table[find_format(info.formats[i].fourcc)] ]
             p == calculate_format_properties(descriptor, info)
         IN  IF p.err # "NONE" THEN select_format(info, i + 1, p.err)
             ELSE [ err |-> "NONE", index |-> i, descriptor |-> descriptor,
                    strides |-> p.strides, offsets |-> p.offsets,
                    total_size |-> p.total_size ]

\* allocate() of either adaptor: one ioctl, whose result is the kernel's.
allocate(kernel) == kernel

\* dma_allocate: the heap of the flags; no heap, no allocation.
dma_allocate(allocator, info, kernel) ==
    LET alloc_fd == IF "PROTECTED" \in info.flags THEN allocator.protected_fd
                    ELSE allocator.memory_fd
    IN  IF alloc_fd < 0 THEN [ fd |-> -1, issued |-> FALSE ]
        ELSE [ fd |-> allocate(kernel), issued |-> TRUE ]

\* ion_allocate: the heap id of the flags; no protected heap, no allocation.
ion_allocate(allocator, info, kernel) ==
    IF "PROTECTED" \in info.flags /\ ~allocator.protected_heap_exists
    THEN [ fd |-> -1, issued |-> FALSE ]
    ELSE [ fd |-> allocate(kernel), issued |-> TRUE ]

\* fn_alloc(allocator, info, total_size): the callback of the adaptor, or any
\* other function the caller of wsiallocp_alloc passes.
fn_alloc(fn, allocator, info, kernel) ==
    IF fn = "dma_allocate" THEN dma_allocate(allocator, info, kernel)
    ELSE IF fn = "ion_allocate" THEN ion_allocate(allocator, info, kernel)
    ELSE [ fd |-> kernel, issued |-> TRUE ]

\* What a call leaves: the error returned, the caller's result, the calls
\* of fn_alloc (size passed, descriptor returned) and the sizes the kernel
\* was asked for.
AllocOutcome(err, result, calls, heap) ==
    [ err |-> err, result |-> result, calls |-> calls, heap |-> heap ]

\* Faulty variant of fill_result: the descriptor is written whatever
\* NO_MEMORY says.
fill_result_always_fd(result, sel, fd, no_memory) ==
    [ result EXCEPT
        !.buffer_fds = [ p \in 1..WSIALLOC_MAX_PLANES |->
            IF p <= sel.descriptor.format_spec.nr_planes THEN fd ELSE @[p] ],
        !.format = sel.descriptor.format,
        !.average_row_strides = [ p \in 1..WSIALLOC_MAX_PLANES |->
            IF p <= sel.descriptor.format_spec.nr_planes
            THEN sel.strides[p] ELSE @[p] ],
        !.offsets = [ p \in 1..WSIALLOC_MAX_PLANES |->
            IF p <= sel.descriptor.format_spec.nr_planes
            THEN sel.offsets[p] ELSE @[p] ],
        !.is_disjoint = FALSE ]

\* The writes to *result at the end of wsiallocp_alloc: the descriptor in
\* every plane slot of the format unless NO_MEMORY is set, then the format,
\* strides and offsets of its planes, and is_disjoint.
fill_result(result, sel, fd, no_memory) ==
    [ result EXCEPT
        !.buffer_fds = [ p \in 1..WSIALLOC_MAX_PLANES |->
            IF ~no_memory /\ p <= sel.descriptor.format_spec.nr_planes
            THEN fd ELSE @[p] ],
        !.format = sel.descriptor.format,
        !.average_row_strides = [ p \in 1..WSIALLOC_MAX_PLANES |->
            IF p <= sel.descriptor.format_spec.nr_planes
            THEN sel.strides[p] ELSE @[p] ],
        !.offsets = [ p \in 1..WSIALLOC_MAX_PLANES |->
            IF p <= sel.descriptor.format_spec.nr_planes
            THEN sel.offsets[p] ELSE @[p] ],
        !.is_disjoint = FALSE ]

\* Faulty variant of allocation_failed: a failed allocation is not seen.
allocation_failed_ignored(fd) == FALSE

\* if (local_fds[0] < 0)
allocation_failed(fd) == fd < 0

\* wsiallocp_alloc with callback fn, the kernel answering `kernel` if asked.
wsiallocp_alloc(req, fn, kernel, result) ==
    IF ~validate_parameters(req)
    THEN AllocOutcome("INVALID", result, << >>, << >>)
    ELSE LET sel == select_format(req, 1, "NONE")
         IN  IF sel.err # "NONE"
             THEN AllocOutcome(sel.err, result, << >>, << >>)
             ELSE IF "NO_MEMORY" \in req.flags
             THEN AllocOutcome("NONE", fill_result(result, sel, -1, TRUE),
                               << >>, << >>)
             ELSE LET r == fn_alloc(fn, req.allocator, req, kernel)
                      calls == << [ size |-> sel.total_size, fd |-> r.fd ] >>
                      heap == IF r.issued THEN << sel.total_size >> ELSE << >>
                  IN  IF allocation_failed(r.fd)
                      THEN AllocOutcome("NO_RESOURCE", result, calls, heap)
                      ELSE AllocOutcome("NONE",
                                        fill_result(result, sel, r.fd, FALSE),
                                        calls, heap)

\* Faulty variant of protected_heap_missing: the heap is not looked for.
protected_heap_missing_unchecked(allocator, flags) == FALSE

\* The test both adaptors make before they call wsiallocp_alloc: the
\* descriptor of the heap to use is negative (DMA-BUF heaps, where the
\* memory heap is always open), the protected heap does not exist (ION).
protected_heap_missing(allocator, flags) ==
    IF allocator.kind = "dma_buf_heaps"
    THEN (IF "PROTECTED" \in flags THEN allocator.protected_fd
          ELSE allocator.memory_fd) < 0
    ELSE "PROTECTED" \in flags /\ ~allocator.protected_heap_exists

\* wsialloc_alloc of an adaptor on an allocator of its own.
wsialloc_alloc(req, fn, kernel, result) ==
    IF protected_heap_missing(req.allocator, req.flags)
    THEN AllocOutcome("NO_RESOURCE", result, << >>, << >>)
    ELSE wsiallocp_alloc(req, fn, kernel, result)

\* fn_alloc was called with a size of 0: assert(size > 0) of the adaptor's
\* callback stops a debug build.
ZeroSizeAsked(o) == o.calls # << >> /\ o.calls[1].size = WideZero

\* The state after a call through entry that left outcome o.
Returns(entry, o) ==
    /\ alloc_entry' = entry
    /\ alloc_return' = o.err
    /\ alloc_result' = o.result
    /\ heap_requests' = [ calls |-> o.calls, heap |-> o.heap ]

\* A call of wsiallocp_alloc itself, with any callback.
call_wsiallocp_alloc ==
    /\ alloc_request.op = "wsialloc_alloc" /\ alloc_return = "none"
    /\ \E kernel \in KernelResults :
           Returns("wsiallocp_alloc",
                   wsiallocp_alloc(alloc_request, "any", kernel, alloc_result))
    /\ UNCHANGED << swapchainVars, imagesVars, newVars, alloc_request >>

\* A call through entry that dereferences the null allocator: anything may
\* follow.
NullDereference(entry) ==
    /\ alloc_entry' = entry
    /\ alloc_return' \in { "crashed", "NO_RESOURCE", "INVALID" }
    /\ UNCHANGED << alloc_result, heap_requests >>

\* wsialloc_alloc of the DMA-BUF heaps adaptor.  allocator->memory_fd is
\* read first, whatever the pointer is.  A debug build stops in allocate()
\* on a size of 0.
call_wsialloc_alloc_dma_buf_heaps ==
    /\ alloc_request.op = "wsialloc_alloc" /\ alloc_return = "none"
    /\ alloc_request.allocator.kind \in { "dma_buf_heaps", "NULL" }
    /\ IF alloc_request.allocator.kind = "NULL"
       THEN NullDereference("dma_buf_heaps")
       ELSE \E kernel \in KernelResults, debug \in BOOLEAN :
              LET o == wsialloc_alloc(alloc_request, "dma_allocate", kernel,
                                      alloc_result)
              IN  IF debug /\ ZeroSizeAsked(o)
                  THEN /\ alloc_entry' = "dma_buf_heaps"
                       /\ alloc_return' = "aborted"
                       /\ heap_requests' = [ calls |-> o.calls, heap |-> << >> ]
                       /\ UNCHANGED alloc_result
                  ELSE Returns("dma_buf_heaps", o)
    /\ UNCHANGED << swapchainVars, imagesVars, newVars, alloc_request >>

\* wsialloc_alloc of the ION adaptor.  The allocator is dereferenced only
\* when PROTECTED is set.
call_wsialloc_alloc_ion ==
    /\ alloc_request.op = "wsialloc_alloc" /\ alloc_return = "none"
    /\ alloc_request.allocator.kind \in { "ion", "NULL" }
    /\ IF /\ alloc_request.allocator.kind = "NULL"
          /\ "PROTECTED" \in alloc_request.flags THEN NullDereference("ion")
       ELSE IF alloc_request.allocator.kind = "NULL"
       THEN Returns("ion", wsiallocp_alloc(alloc_request, "ion_allocate", -1,
                                           alloc_result))
       ELSE \E kernel \in KernelResults, debug \in BOOLEAN :
              LET o == wsialloc_alloc(alloc_request, "ion_allocate", kernel,
                                      alloc_result)
              IN  IF debug /\ ZeroSizeAsked(o)
                  THEN /\ alloc_entry' = "ion"
                       /\ alloc_return' = "aborted"
                       /\ heap_requests' = [ calls |-> o.calls, heap |-> << >> ]
                       /\ UNCHANGED alloc_result
                  ELSE Returns("ion", o)
    /\ UNCHANGED << swapchainVars, imagesVars, newVars, alloc_request >>

----------------------------------------------------------------------------
(* wsialloc_new of the ION adaptor.                                        *)

\* The most entries the heap query reports, and the largest heap id.
MaxHeaps == 2
MaxHeapId == 1

\* uint32_t values are pairs << high, low >> of 16-bit halves.
HalfWord == 65536

\* The conversion of an int to uint32_t (modulo 2^32).
to_uint32(x) ==
    IF x >= 0
    THEN << x \div HalfWord, x % HalfWord >>
    ELSE LET y == (x + 2147483647) + 1
         IN  << (y \div HalfWord) + 32768, y % HalfWord >>

\* a < b on uint32_t.
uint32_less(a, b) == a[1] < b[1] \/ (a[1] = b[1] /\ a[2] < b[2])

\* The heap types the kernel reports.
HeapTypes == { "ION_HEAP_TYPE_SYSTEM", "ION_HEAP_TYPE_DMA" }

\* struct ion_heap_data, the fields read.
HeapData == [ type : HeapTypes, heap_id : 0..MaxHeapId ]

HeapLists == UNION { [ 1..n -> HeapData ] : n \in 0..MaxHeaps }

\* What *allocator holds before the call.
CallerPointers == { NullAllocator, [ kind |-> "unset" ] }

\* A call: the build, *allocator, whether malloc succeeds, what open returns,
\* what the ION_IOC_HEAP_QUERY ioctl returns and the heaps it reports.
NewRequests ==
    [ op : { "wsialloc_new" }, debug : BOOLEAN, allocator : CallerPointers,
      malloc : BOOLEAN, open : { -1, 3 }, query : { -1, 0 }, heaps : HeapLists ]

\* The loop of find_alloc_heap_id from entry i on.
RECURSIVE first_dma_heap(_, _)
first_dma_heap(heaps, i) ==
    IF i > Len(heaps) THEN -1
    ELSE IF heaps[i].type = "ION_HEAP_TYPE_DMA" THEN heaps[i].heap_id
    ELSE first_dma_heap(heaps, i + 1)

\* find_alloc_heap_id: the ioctl's error, or the id of the first DMA heap,
\* or -1.
find_alloc_heap_id(query, heaps) ==
    IF query < 0 THEN query ELSE first_dma_heap(heaps, 1)

NewReply(r, a, fds) == [ return |-> r, allocator |-> a, fds |-> fds ]

\* wsialloc_delete(ion) on a failure path: the descriptor is closed when it
\* was opened, the struct is freed, *allocator is as it was.
new_failed(req) == NewReply("NO_RESOURCE", req.allocator, {})

\* The body of wsialloc_new.  The result of find_alloc_heap_id is stored in
\* the uint32_t alloc_heap_id, and that field is compared with 0.
wsialloc_new(req) ==
    IF ~req.malloc
    THEN IF req.debug THEN NewReply("aborted", req.allocator, {})
         ELSE new_failed(req)
    ELSE IF req.open < 0 THEN new_failed(req)
    ELSE LET alloc_heap_id == to_uint32(find_alloc_heap_id(req.query, req.heaps))
         IN  IF uint32_less(alloc_heap_id, to_uint32(0))
             THEN new_failed(req)
             ELSE NewReply("NONE",
                           [ fd |-> req.open, alloc_heap_id |-> alloc_heap_id,
                             protected_heap_exists |-> FALSE ],
                           { req.open })

\* The call.
call_wsialloc_new ==
    /\ new_request # NoCall /\ new_reply = NoCall
    /\ new_reply' = wsialloc_new(new_request)
    /\ UNCHANGED << swapchainVars, allocVars, imagesVars, new_request >>

----------------------------------------------------------------------------
Next ==
    \/ init_descendant
    \/ \E s \in SC : acquire_next_image_wait(s)
    \/ \E s \in SC : acquire_next_image_timeout(s)
    \/ \E s \in SC : acquire_next_image_scan(s)
    \/ \E s \in SC, i \in Img : queue_present_entry(s, i)
    \/ \E s \in SC : queue_present_device_error(s)
    \/ \E s \in SC : queue_present_return_result(s)
    \/ \E s \in SC : queue_present_submit(s)
    \/ \E s \in SC : page_flip_thread_exit(s)
    \/ \E s \in SC : page_flip_thread_dequeue(s)
    \/ \E s \in SC : page_flip_thread_fence_failed(s)
    \/ \E s \in SC : page_flip_thread_reclaim(s)
    \/ \E s \in SC : page_flip_thread_present(s)
    \/ \E s \in SC : page_flip_thread_first(s)
    \/ \E s \in SC : page_flip_thread_wait_ancestor(s)
    \/ \E s \in SC : page_flip_thread_start_present(s)
    \/ \E s \in SC : teardown_begin(s)
    \/ \E s \in SC : teardown_wait_descendant(s)
    \/ \E s \in SC : teardown_wait_pending(s)
    \/ \E s \in SC : teardown_stop_thread(s)
    \/ \E s \in SC : teardown_finish(s)

Spec == Init /\ [][Next]_vars

\* The swapchains with an application that also calls acquire_next_image on
\* a swapchain it has replaced.
RetiredNext ==
    \/ Next
    \/ \E s \in SC : acquire_next_image_wait_retired(s)

RetiredSpec == Init /\ [][RetiredNext]_vars

\* get_swapchain_images on its own: every request within the bounds, made
\* of a swapchain that has just been constructed.
ImagesInit ==
    /\ swapchain_init
    /\ alloc_request = NoCall /\ alloc_result = NoCall
    /\ alloc_return = "none" /\ alloc_entry = "none"
    /\ heap_requests = [ calls |-> << >>, heap |-> << >> ]
    /\ images_request \in ImagesRequests /\ images_reply = NoCall
    /\ new_request = NoCall /\ new_reply = NoCall

ImagesNext == get_swapchain_images

ImagesSpec == ImagesInit /\ [][ImagesNext]_vars

\* The allocator on its own: every request within the bounds, the caller's
\* result holding what it held before.
AllocInit ==
    /\ swapchain_init
    /\ images_request = NoCall /\ images_reply = NoCall
    /\ new_request = NoCall /\ new_reply = NoCall
    /\ alloc_request \in AllocRequests
    /\ alloc_result = caller_result
    /\ alloc_return = "none" /\ alloc_entry = "none"
    /\ heap_requests = [ calls |-> << >>, heap |-> << >> ]

AllocNext ==
    \/ call_wsiallocp_alloc
    \/ call_wsialloc_alloc_dma_buf_heaps
    \/ call_wsialloc_alloc_ion

AllocSpec == AllocInit /\ [][AllocNext]_vars

\* wsialloc_new of the ION adaptor on its own: every outcome of malloc, open
\* and the heap query within the bounds.
NewInit ==
    /\ swapchain_init
    /\ alloc_request = NoCall /\ alloc_result = NoCall
    /\ alloc_return = "none" /\ alloc_entry = "none"
    /\ heap_requests = [ calls |-> << >>, heap |-> << >> ]
    /\ images_request = NoCall /\ images_reply = NoCall
    /\ new_request \in NewRequests /\ new_reply = NoCall

NewNext == call_wsialloc_new

NewSpec == NewInit /\ [][NewNext]_vars

----------------------------------------------------------------------------
(* Properties.                                                             *)

TeardownStarted(s) ==
    apc[s] \in { "teardown_wait_descendant", "teardown_wait_pending",
                 "teardown_idle", "teardown_join", "done" }

PresentedCount(s) == Cardinality(InState(status[s], "PRESENTED"))

\* C1: the page-flip worker dequeues the indices in the order queue_present
\* enqueued them: every dequeue yields the oldest entry not yet dequeued.
C1_DequeueInSubmitOrder ==
    [][ \A s \in SC :
          (wpc[s] = "loop" /\ wpc'[s] = "fence")
              => (pend[s] # << >> /\ wIdx'[s] = Head(pend[s])[1]) ]_vars

\* The worker of A holds index 1 while index 0, enqueued after it, waits.
C1_Witness ==
    wpc["A"] = "fence" /\ wIdx["A"] = 1 /\ pend["A"] = << << 0, FALSE >> >>

\* C2: after the first present and before teardown starts, exactly one image
\* of the swapchain is PRESENTED.
C2_ExactlyOnePresented ==
    \A s \in SC :
        (life[s] = "live" /\ ~first_present[s] /\ ~TeardownStarted(s))
            => PresentedCount(s) = 1

\* A has presented twice: the second present displaced the first.
C2_Witness ==
    /\ ~first_present["A"] /\ ~TeardownStarted("A")
    /\ status["A"][1] = "PRESENTED" /\ status["A"][0] = "FREE"

\* destroy_image is called on image i of s in this step.
Destroyed(s, i) == i \notin destroyed[s] /\ i \in destroyed'[s]

\* The step is the end of teardown of s.
TeardownStep(s) == apc[s] = "teardown_join" /\ apc'[s] = "done"

\* C3 as stated: no operation, teardown included, destroys an image that is
\* PENDING or ACQUIRED at that moment.
C3_NeverDestroyedInUse ==
    [][ \A s \in SC, i \in Img :
          status[s][i] \in { "PENDING", "ACQUIRED" } => ~Destroyed(s, i) ]_vars

\* C3 amended: deprecate, unpresent_image and the worker's reclaim path never
\* destroy an image that is PENDING or ACQUIRED; teardown destroys every
\* slot, whatever its state.
C3_OnlyTeardownDestroysInUse ==
    [][ \A s \in SC :
          /\ \A i \in Img :
                (status[s][i] \in { "PENDING", "ACQUIRED" } /\ Destroyed(s, i))
                    => TeardownStep(s)
          /\ TeardownStep(s) => destroyed'[s] = Img ]_vars

\* deprecate has destroyed image 1 of A and left the ACQUIRED image 0 alone.
C3_Witness ==
    /\ life["A"] = "live" /\ descendant["A"] = "B"
    /\ status["A"][0] = "ACQUIRED" /\ destroyed["A"] = { 1 }

\* acquire_next_image of s returns in this step.
AcquireReturns(s) == ret'.sc = s /\ ret'.op = "acquire_next_image"

\* C4: a successful acquire_next_image writes the lowest index that was FREE
\* at the scan, that image becomes ACQUIRED (so it was held by nobody), and
\* no other image changes state; the scan always finds a FREE image.
C4_AcquireLowestFree ==
    [][ \A s \in SC :
          /\ (AcquireReturns(s) /\ ret'.val = "SUCCESS") =>
                /\ ret'.idx \in Img
                /\ status[s][ret'.idx] = "FREE"
                /\ \A j \in Img : status[s][j] = "FREE" => ret'.idx <= j
                /\ status' = [ status EXCEPT ![s][ret'.idx] = "ACQUIRED" ]
          /\ ~aborted' ]_vars

\* A has acquired image 1 while image 0 was in use.
C4_Witness ==
    /\ ret = Returned("A", "acquire_next_image", "SUCCESS", 1)
    /\ status["A"][0] = "PRESENTED" /\ status["A"][1] = "ACQUIRED"

\* The worker of s calls present_image in this step.
Presents(s) ==
    \/ wpc[s] = "start_present" /\ wpc'[s] = "loop"
    \/ /\ wpc[s] = "fence" /\ wpc'[s] = "loop" /\ ~first_present[s]
       /\ fence_failures' = fence_failures /\ status[s][wIdx[s]] # "FREE"

\* C5: once the worker of a swapchain with an ancestor has made its first
\* present, the worker of the ancestor never calls present_image again.
C5_AncestorPresentsFirst ==
    [][ \A s \in SC :
          (ancestor_local(s) # NoSC /\ Presents(ancestor_local(s)))
              => first_present[s] ]_vars

\* queue_present of s gets past its device calls in this step.
Submits(s) == apc[s] = "present" /\ apc'[s] = "idle"

\* The worker of s ends its WaitForFences with success in this step.
FencePassed(s) ==
    wpc[s] = "fence" /\ wpc'[s] # "fence" /\ fence_failures' = fence_failures

WorkerStep(s) ==
    \/ page_flip_thread_exit(s)
    \/ page_flip_thread_dequeue(s)
    \/ page_flip_thread_fence_failed(s)
    \/ page_flip_thread_reclaim(s)
    \/ page_flip_thread_present(s)
    \/ page_flip_thread_first(s)
    \/ page_flip_thread_wait_ancestor(s)
    \/ page_flip_thread_start_present(s)

CallStep(s) ==
    \/ acquire_next_image_scan(s)
    \/ queue_present_device_error(s)
    \/ queue_present_return_result(s)
    \/ queue_present_submit(s)
    \/ teardown_wait_descendant(s)
    \/ teardown_wait_pending(s)
    \/ teardown_stop_thread(s)
    \/ teardown_finish(s)

\* The wait the thread of s is in is on a semaphore of a swapchain whose
\* teardown has returned: the object is freed, and nothing makes a wait on it
\* return.
DanglingWait(s) ==
    \/ wpc[s] = "wait_ancestor" /\ life[ancestor_local(s)] # "live"
    \/ apc[s] = "teardown_wait_descendant" /\ life[descendant_local(s)] # "live"

FairSpec ==
    Spec /\ \A s \in SC :
        /\ WF_vars(WorkerStep(s) /\ ~DanglingWait(s))
        /\ WF_vars(CallStep(s) /\ ~DanglingWait(s))

\* C7: a teardown that has been entered returns, with the worker joined and
\* every image slot destroyed.
C7_TeardownTerminates ==
    \A s \in SC :
        TeardownStarted(s) ~>
            ( apc[s] = "done" /\ wpc[s] = "exited" /\ destroyed[s] = Img )

\* The images of s an acquire could still take: FREE and not claimed by an
\* acquire that is past the wait.
Unclaimed(s) ==
    Cardinality(InState(status[s], "FREE")) - (IF apc[s] = "acquire" THEN 1 ELSE 0)

\* C8 as stated: in every state the free-image semaphore equals the number
\* of FREE images not claimed by an acquire that is past the wait.
C8_SemaphoreCountsFree ==
    \A s \in SC : life[s] = "live" => free_image_semaphore[s] = Unclaimed(s)

\* C8 amended: the equality holds while the swapchain is valid, has not been
\* deprecated and is not in teardown.
C8_SemaphoreCountsFreeWhileCurrent ==
    \A s \in SC :
        (life[s] = "live" /\ is_valid[s] /\ ~retired(s) /\ ~TeardownStarted(s))
            => free_image_semaphore[s] = Unclaimed(s)

\* An image of A was displaced from the screen and its count posted.
C8_Witness ==
    /\ life["A"] = "live" /\ is_valid["A"] /\ ~retired("A") /\ apc["A"] = "idle"
    /\ status["A"][0] = "FREE" /\ status["A"][1] = "PRESENTED"
    /\ free_image_semaphore["A"] = 1

\* The four states an image in use moves between.
InUseStates == { "FREE", "ACQUIRED", "PENDING", "PRESENTED" }

\* The calling thread of s is in the last step of acquire_next_image.
InAcquire(s) == apc[s] = "acquire" /\ apc'[s] = "idle"

\* The calling thread of s is in the last step of queue_present.
InQueuePresent(s) == apc[s] = "present" /\ apc'[s] = "idle"

\* The page-flip worker of s is in the step that follows its fence wait.
OnWorker(s) == wpc[s] \in { "fence", "start_present" } /\ wpc'[s] = "loop"

\* The transitions C9 lists, each with the thread it names.
Listed(s, a, b) ==
    \/ a = "FREE" /\ b = "ACQUIRED" /\ InAcquire(s)
    \/ a = "ACQUIRED" /\ b \in { "PENDING", "FREE" } /\ InQueuePresent(s)
    \/ a = "PENDING" /\ b \in { "PRESENTED", "FREE" } /\ OnWorker(s)

\* Image i of s moves from one of the four states to another in this step.
Moves(s, i) ==
    /\ status[s][i] # status'[s][i]
    /\ status[s][i] \in InUseStates /\ status'[s][i] \in InUseStates

FenceFails(s) ==
    wpc[s] = "fence" /\ wpc'[s] = "loop" /\ fence_failures' = fence_failures + 1

\* C10: a failed fence wait marks the swapchain invalid and posts the
\* free-image semaphore once; the next acquire_next_image to return gives
\* OUT_OF_HOST_MEMORY, moves no image to ACQUIRED and writes no index.
C10_FenceFailureObserved ==
    [][ \A s \in SC :
          /\ FenceFails(s) =>
                /\ ~is_valid'[s]
                /\ free_image_semaphore'[s] = free_image_semaphore[s] + 1
          /\ (unobserved[s] /\ AcquireReturns(s)) =>
                /\ ret'.val = "OUT_OF_HOST_MEMORY"
                /\ ret'.idx = NoImg
                /\ status' = status ]_vars

\* The acquire that followed a failed fence wait of A has returned.
C10_Witness ==
    /\ ret = Returned("A", "acquire_next_image", "OUT_OF_HOST_MEMORY", NoImg)
    /\ fence_failures = 1 /\ ~is_valid["A"] /\ life["A"] = "live"
    /\ ~unobserved["A"]

\* C11: when the wait for a free image does not succeed (TIMEOUT, NOT_READY
\* or a failed get_free_buffer), acquire_next_image returns that result as it
\* is, writes no index and changes no image state, no queue content and no
\* semaphore count; a call only goes on to the scan after it has taken one
\* count of the free-image semaphore.
C11_WaitFailureReturnedUnchanged ==
    [][ \A s \in SC :
          /\ (apc[s] = "idle" /\ AcquireReturns(s)) =>
                /\ free_image_semaphore[s] = 0
                /\ ret'.val \in wait_for_free_buffer_failures
                /\ ret'.idx = NoImg
                /\ status' = status /\ ring' = ring
                /\ head' = head /\ tail' = tail
                /\ semVars' = semVars /\ flagVars' = flagVars
          /\ (apc[s] = "idle" /\ apc'[s] = "acquire") =>
                /\ free_image_semaphore[s] > 0
                /\ free_image_semaphore'[s] = free_image_semaphore[s] - 1
          /\ (AcquireReturns(s) /\ ret'.val \in wait_for_free_buffer_failures) =>
                apc[s] = "idle" ]_vars

\* A call on A has timed out while both images of A were held or queued.
C11_Witness ==
    /\ ret = Returned("A", "acquire_next_image", "TIMEOUT", NoImg)
    /\ free_image_semaphore["A"] = 0 /\ InState(status["A"], "FREE") = {}
    /\ acquires = 2 /\ apc["A"] = "idle"

\* C12: queue_present on an ACQUIRED image, entered while no image of the
\* descendant was PRESENTED or PENDING and with both device calls succeeding,
\* returns SUCCESS, sets that image and no other to PENDING, writes its index
\* once at the ring tail, advances the tail by one modulo the image count,
\* posts the page-flip semaphore once and leaves the ring head, the other
\* ring slots and the other semaphores as they were.
C12_PresentFrameEffect ==
    [][ \A s \in SC :
          (Submits(s) /\ ~aTook[s]) =>
              /\ ret' = Returned(s, "queue_present", "SUCCESS", aIdx[s])
              /\ status[s][aIdx[s]] = "ACQUIRED"
              /\ status' = [ status EXCEPT ![s][aIdx[s]] = "PENDING" ]
              /\ ring' = [ ring EXCEPT ![s][tail[s]] = aIdx[s] ]
              /\ tail' = [ tail EXCEPT ![s] = (tail[s] + 1) % NumImages ]
              /\ head' = head
              /\ pend' = [ pend EXCEPT ![s] = Append(@, << aIdx[s], FALSE >>) ]
              /\ page_flip_semaphore' =
                     [ page_flip_semaphore EXCEPT ![s] = @ + 1 ]
              /\ free_image_semaphore' = free_image_semaphore
              /\ start_present_semaphore' = start_present_semaphore ]_vars

\* The second queue_present of A has returned SUCCESS: its index went into
\* the last ring slot, the tail wrapped round to 0, and the entry waits for
\* the worker.
C12_Witness ==
    /\ ret = Returned("A", "queue_present", "SUCCESS", 1)
    /\ status["A"][1] = "PENDING" /\ ring["A"][NumImages - 1] = 1
    /\ tail["A"] = 0 /\ page_flip_semaphore["A"] >= 1

\* C13: with a null array, get_swapchain_images writes the image count to
\* the count and returns SUCCESS; with an array and a requested count c >= 1
\* it writes the handles of images 0 .. min(c, image_count) - 1 in that
\* order, sets the count to min(c, image_count), and returns INCOMPLETE when
\* c < image_count and SUCCESS otherwise.
C13_ImagesCopied ==
    images_reply.op = "get_swapchain_images" =>
        LET n == images_request.image_count
            c == images_request.count
            r == images_reply
        IN  /\ ~images_request.array =>
                  r.result = "SUCCESS" /\ r.count = n /\ r.images = << >>
            /\ (images_request.array /\ c >= 1) =>
                  /\ r.images = [ k \in 1..Min(c, n) |-> image_handle(k - 1) ]
                  /\ r.count = Min(c, n)
                  /\ r.result = IF c < n THEN "INCOMPLETE" ELSE "SUCCESS"

\* Three of four images were asked for: three handles and INCOMPLETE.
C13_Witness ==
    /\ images_request.op = "get_swapchain_images"
    /\ images_request.array /\ images_request.image_count = 4
    /\ images_request.count = 3
    /\ images_reply.op = "get_swapchain_images"
    /\ images_reply.result = "INCOMPLETE" /\ Len(images_reply.images) = 3

\* The bytes per pixel of the single plane of the format a call reported.
ReportedBytesPerPixel ==
    fourcc_format_table[find_format(alloc_result.format.fourcc)].bpp[1] \div 8

\* A call returned NONE: it accepted the request.
Accepted == alloc_return = "NONE"

\* C14: for every request the allocator accepts, the reported stride is a
\* multiple of 64, is no smaller than width * bytes_per_pixel and less than
\* 64 above it, the offset of plane 0 is 0, and the total size the heap is
\* asked for is stride * height as the exact integer.
C14_ExactStrideAndSize ==
    Accepted =>
        LET stride == alloc_result.average_row_strides[1]
            row == alloc_request.width * ReportedBytesPerPixel
        IN  /\ stride % 64 = 0
            /\ stride >= row /\ stride < row + 64
            /\ alloc_result.offsets[1] = WideZero
            /\ \A k \in 1..Len(heap_requests.calls) :
                   heap_requests.calls[k].size =
                       WideProduct(stride, alloc_request.height)

\* The request passes the checks on its pointers, its format list and its
\* dimensions.
ValidRequest ==
    /\ alloc_request.allocator.kind # "NULL" /\ alloc_request.result
    /\ ~alloc_request.formats_null /\ alloc_request.format_count >= 1
    /\ alloc_request.width \in 1..MAX_IMAGE_SIZE
    /\ alloc_request.height \in 1..MAX_IMAGE_SIZE

\* Candidate f can be allocated: its fourcc, the big-endian bit aside, is in
\* the format table with one plane, and its modifier is linear.
Acceptable(f) ==
    /\ f.modifier = "LINEAR"
    /\ \E i \in 1..Len(fourcc_format_table) :
           /\ fourcc_format_table[i].drm_format.code = f.fourcc.code
           /\ fourcc_format_table[i].nr_planes = 1

\* The position of the first acceptable candidate of the request, 0 when
\* it has none.
FirstAcceptable ==
    LET ok == { i \in 1..alloc_request.format_count :
                  Acceptable(alloc_request.formats[i]) }
    IN  IF ok = {} THEN 0 ELSE CHOOSE i \in ok : \A j \in ok : i <= j

\* A call has been made through wsiallocp_alloc itself.
CoreCalled == alloc_entry = "wsiallocp_alloc"

\* C15: wsiallocp_alloc selects the first candidate, in list order, that is
\* in the format table with one plane and has the linear modifier: a valid
\* request with such a candidate is never refused as NOT_SUPPORTED because
\* of the candidates before it, and the format reported on success is that
\* candidate exactly as the caller supplied it, never a later one.
C15_FirstAcceptableSelected ==
    CoreCalled =>
        /\ (ValidRequest /\ FirstAcceptable > 0) =>
               alloc_return \in { "NONE", "NO_RESOURCE" }
        /\ Accepted =>
               /\ FirstAcceptable > 0
               /\ alloc_result.format = alloc_request.formats[FirstAcceptable]
               /\ alloc_result.average_row_strides[1] =
                      round_size_up_to_align(
                          alloc_request.width * ReportedBytesPerPixel)

\* A tiled XR24 was skipped and the big-endian XR24 behind it selected and
\* reported with its big-endian bit.
C15_Witness ==
    /\ CoreCalled /\ Accepted
    /\ alloc_request.formats =
           << Format("XR24", FALSE, "AFBC"), Format("XR24", TRUE, "LINEAR") >>
    /\ alloc_result.format = Format("XR24", TRUE, "LINEAR")

\* What the same request without NO_MEMORY leaves when its allocation
\* succeeds.
WithMemory ==
    wsiallocp_alloc([ alloc_request EXCEPT !.flags = @ \ { "NO_MEMORY" } ],
                    "any", 7, caller_result)

\* C16: a successful call with NO_MEMORY set never calls the allocation
\* callback, asks the kernel for nothing and writes no buffer_fds slot, and
\* reports the format, the stride and the offset the same request reports
\* without the flag.
C16_NoMemoryMetadataOnly ==
    (Accepted /\ "NO_MEMORY" \in alloc_request.flags) =>
        /\ heap_requests.calls = << >> /\ heap_requests.heap = << >>
        /\ alloc_result.buffer_fds = caller_result.buffer_fds
        /\ WithMemory.err = "NONE"
        /\ alloc_result.format = WithMemory.result.format
        /\ alloc_result.average_row_strides = WithMemory.result.average_row_strides
        /\ alloc_result.offsets = WithMemory.result.offsets
        /\ alloc_result.format # caller_result.format
        /\ alloc_result.average_row_strides[1] # caller_result.average_row_strides[1]
        /\ alloc_result.offsets[1] # caller_result.offsets[1]

\* A 17 pixels wide XR24 image was described with NO_MEMORY set: stride 128,
\* no descriptor.
C16_Witness ==
    /\ Accepted /\ "NO_MEMORY" \in alloc_request.flags
    /\ alloc_request.width = 17
    /\ alloc_result.format = Format("XR24", FALSE, "LINEAR")
    /\ alloc_result.average_row_strides[1] = 128
    /\ alloc_result.buffer_fds[1] = caller_result.buffer_fds[1]

\* The call changed nothing outside itself: fn_alloc was not called, the
\* kernel was asked for nothing and the caller's result is as it was.
NothingDone ==
    /\ heap_requests.calls = << >> /\ heap_requests.heap = << >>
    /\ alloc_result = caller_result

AllocationSucceeded ==
    /\ Len(heap_requests.calls) = 1
    /\ heap_requests.calls[1].fd >= 0

SelectedTotalSize ==
    calculate_format_properties(
        [ format |-> alloc_request.formats[FirstAcceptable],
          format_spec |-> fourcc_format_table[
              find_format(alloc_request.formats[FirstAcceptable].fourcc)] ],
        alloc_request).total_size

\* C19: when a format was selected, NO_MEMORY is unset and the callback
\* returns a negative value, the call returns NO_RESOURCE and every field of
\* the result is as the caller left it; the callback is called at most once
\* per call (once when a format was selected and NO_MEMORY is unset), with
\* the total size computed for the selected format.
C19_FailedAllocationLeavesResult ==
    /\ Len(heap_requests.calls) <= 1 /\ Len(heap_requests.heap) <= 1
    /\ heap_requests.calls # << >> =>
          /\ ValidRequest /\ FirstAcceptable > 0
          /\ "NO_MEMORY" \notin alloc_request.flags
          /\ heap_requests.calls[1].size = SelectedTotalSize
    /\ (heap_requests.calls # << >> /\ alloc_return # "aborted"
            /\ heap_requests.calls[1].fd < 0) =>
          (alloc_return = "NO_RESOURCE" /\ alloc_result = caller_result)
    /\ (CoreCalled /\ ValidRequest /\ FirstAcceptable > 0
            /\ "NO_MEMORY" \notin alloc_request.flags) =>
          Len(heap_requests.calls) = 1

\* The DMA-BUF heap refused the 128 bytes of a 17 x 1 XR24 image.
C19_Witness ==
    /\ alloc_entry = "dma_buf_heaps" /\ alloc_return = "NO_RESOURCE"
    /\ alloc_request.width = 17 /\ alloc_request.height = 1
    /\ alloc_request.formats = << Format("XR24", FALSE, "LINEAR") >>
    /\ heap_requests.calls = << [ size |-> << 2, 0 >>, fd |-> -12 ] >>
    /\ heap_requests.heap = << << 2, 0 >> >>
    /\ alloc_result = caller_result

\* A call has been made through wsialloc_alloc of one of the adaptors, on
\* an allocator of that adaptor.
AdaptorCalled ==
    /\ alloc_entry \in { "dma_buf_heaps", "ion" }
    /\ alloc_request.allocator.kind = alloc_entry

\* The allocator of the request has no protected heap.
NoProtectedHeap ==
    IF alloc_request.allocator.kind = "dma_buf_heaps"
    THEN alloc_request.allocator.protected_fd < 0
    ELSE ~alloc_request.allocator.protected_heap_exists

C21_NoTeardownUnderWaitingDescendant ==
    \A s \in SC :
        wpc[s] = "wait_ancestor" => life[ancestor_local(s)] # "dead"

\* The worker of s posts its start-present one-shot in this step.
PostsStartPresent(s) == start_present_semaphore'[s] > start_present_semaphore[s]

\* C22: the start-present one-shot of a swapchain is posted at most once in
\* its life (only by the step that ends its first present, and the first
\* present never comes back); that step posts and then makes the swapchain's
\* first present_image call, so no present_image call precedes the post; and
\* when the worker found an ancestor, the post comes after the ancestor's
\* wait_for_pending_buffers() has returned (at once when it has nothing to
\* wait for, after its last wait otherwise).
C22_StartPresentPostedOnce ==
    [][ \A s \in SC :
          /\ PostsStartPresent(s) =>
                /\ start_present_semaphore'[s] = start_present_semaphore[s] + 1
                /\ first_present[s] /\ ~first_present'[s]
                /\ wpc[s] = "start_present" /\ wWait[s] = 0
                /\ Presents(s)
          /\ ~first_present[s] => ~first_present'[s]
          /\ Presents(s) => (PostsStartPresent(s) \/ ~first_present[s])
          /\ (wpc[s] = "fence" /\ wpc'[s] = "start_present") =>
                \/ ancestor[s] = NoSC
                \/ pending_wait_count(status[ancestor[s]]) <= 0
          /\ (wpc[s] = "wait_ancestor" /\ wpc'[s] = "start_present") =>
                wWait[s] = 1 /\ wWait'[s] = 0 ]_vars

\* B has made its first present after its worker took one count of the
\* free-image semaphore of A, which had handed out no image and is idle.
C22_Witness ==
    /\ ~first_present["B"] /\ start_present_semaphore["B"] = 1
    /\ life["A"] = "live" /\ apc["A"] = "idle"
    /\ InState(status["A"], "INVALID") = Img
    /\ free_image_semaphore["A"] = NumImages - 1

\* The links of s are broken in this step.
LinksBroken(s) ==
    \/ ancestor[s] # NoSC /\ ancestor'[s] = NoSC
    \/ descendant[s] # NoSC /\ descendant'[s] = NoSC

\* C23: teardown runs in order: the wait step (the descendant's one-shot or
\* its own wait_for_pending_buffers), QueueWaitIdle, the clearing of the run
\* flag, the join of the worker, and only then the breaking of the links and
\* destroy_image on every slot; while its worker has not exited, teardown
\* destroys no image and frees nothing (an image destroyed in that time is
\* destroyed by the worker).
C23_TeardownOrder ==
    [][ \A s \in SC :
          /\ (apc'[s] = "teardown_wait_descendant" /\ apc[s] # apc'[s]) =>
                apc[s] = "idle"
          /\ (apc'[s] = "teardown_wait_pending" /\ apc[s] # apc'[s]) =>
                apc[s] = "idle"
          /\ (apc'[s] = "teardown_idle" /\ apc[s] # apc'[s]) =>
                apc[s] \in { "idle", "teardown_wait_descendant",
                             "teardown_wait_pending" }
          /\ (apc'[s] = "teardown_join" /\ apc[s] # apc'[s]) =>
                apc[s] = "teardown_idle"
          /\ (page_flip_thread_run[s] /\ ~page_flip_thread_run'[s]) =>
                (apc[s] = "teardown_idle" /\ apc'[s] = "teardown_join")
          /\ (apc'[s] = "done" /\ apc[s] # apc'[s]) =>
                /\ apc[s] = "teardown_join"
                /\ ~page_flip_thread_run[s] /\ wpc[s] = "exited"
                /\ ancestor'[s] = NoSC /\ descendant'[s] = NoSC
                /\ destroyed'[s] = Img /\ life'[s] = "dead"
          /\ LinksBroken(s) =>
                \E t \in SC : TeardownStep(t) /\ wpc[t] = "exited"
          /\ (TeardownStarted(s) /\ wpc[s] # "exited") =>
                /\ life'[s] = life[s]
                /\ \A i \in Img : Destroyed(s, i) => OnWorker(s) ]_vars

\* Teardown of A has returned with its worker joined, after it waited for
\* the one-shot of B; the link of B to A is broken.
C23_Witness ==
    /\ apc["A"] = "done" /\ wpc["A"] = "exited" /\ destroyed["A"] = Img
    /\ life["B"] = "live" /\ ~first_present["B"]
    /\ start_present_semaphore["B"] = 0 /\ ancestor["B"] = NoSC

\* C24: under fair scheduling, an image that a queue_present returning
\* SUCCESS has queued (it is PENDING) is in the end passed to present_image
\* (it is PRESENTED), unless a fence wait of the swapchain fails or the
\* swapchain itself is torn down first.
C24_QueuedImagePresented ==
    \A s \in SC, i \in Img :
        (status[s][i] = "PENDING") ~>
            (status[s][i] = "PRESENTED" \/ ~is_valid[s] \/ TeardownStarted(s))

\* C25: when acquire_next_image is past the wait on the free-image semaphore
\* of a valid swapchain, at least one image of the swapchain is FREE, so the
\* scan finds an index and assert(i < m_num_swapchain_images) does not fire;
\* this also after the swapchain has been deprecated.
C25_ScanFindsFreeImage ==
    /\ \A s \in SC :
          (apc[s] = "acquire" /\ is_valid[s]) => InState(status[s], "FREE") # {}
    /\ ~aborted

\* wait_for_pending_buffers(), run on swapchain x by the worker of s, returns
\* in this step: at once, or after its last wait.
WorkerWaitReturns(s, x) ==
    /\ wpc'[s] = "start_present"
    /\ \/ wpc[s] = "fence" /\ ancestor[s] = x
       \/ wpc[s] = "wait_ancestor" /\ ancestor_local(s) = x

\* wait_for_pending_buffers(), run by teardown of x on x itself, returns in
\* this step: at once, or after its last wait.
TeardownWaitReturns(x) ==
    /\ apc'[x] = "teardown_idle"
    /\ apc[x] \in { "idle", "teardown_wait_pending" }
    /\ ~( /\ descendant[x] # NoSC
          /\ descendant_started_presenting(status[descendant[x]]) )

\* wait_for_pending_buffers() on x returns in this step.
WaitForPendingReturns(x) ==
    TeardownWaitReturns(x) \/ \E s \in SC : WorkerWaitReturns(s, x)

\* What is left of x when the wait is over: nothing PENDING, one PRESENTED.
Drained(st) ==
    InState(st, "PENDING") = {} /\ Cardinality(InState(st, "PRESENTED")) = 1

\* The number of waits the call makes: max(0, image_count - acquired - 1).
WaitsToMake(st) ==
    IF pending_wait_count(st) > 0 THEN pending_wait_count(st) ELSE 0

\* The waits of wait_for_pending_buffers(): the count is set from the images
\* ACQUIRED at entry, every wait takes one count of the free-image semaphore
\* and the call returns when none is left to make.
WaitsCounted ==
    \A s \in SC :
        /\ (wpc[s] = "fence" /\ wpc'[s] = "wait_ancestor") =>
              wWait'[s] = WaitsToMake(status[ancestor[s]]) /\ wWait'[s] > 0
        /\ (wpc[s] = "fence" /\ wpc'[s] = "start_present"
                /\ ancestor[s] # NoSC) =>
              WaitsToMake(status[ancestor[s]]) = 0
        /\ wpc[s] = "wait_ancestor" =>
              /\ wWait'[s] \in { wWait[s], wWait[s] - 1 }
              /\ wWait[s] > 0
              /\ (wpc'[s] = "start_present") = (wWait'[s] = 0)
              /\ (wWait'[s] # wWait[s] /\ life[ancestor_local(s)] = "live") =>
                    free_image_semaphore'[ancestor_local(s)]
                        = free_image_semaphore[ancestor_local(s)] - 1
        /\ (apc[s] = "idle" /\ apc'[s] = "teardown_wait_pending") =>
              aWait'[s] = WaitsToMake(status[s]) /\ aWait'[s] > 0
        /\ (apc[s] = "idle" /\ TeardownWaitReturns(s)) =>
              WaitsToMake(status[s]) = 0
        /\ apc[s] = "teardown_wait_pending" =>
              /\ aWait'[s] \in { aWait[s], aWait[s] - 1 }
              /\ aWait[s] > 0
              /\ (apc'[s] = "teardown_idle") = (aWait'[s] = 0)
              /\ aWait'[s] # aWait[s] =>
                    free_image_semaphore'[s] = free_image_semaphore[s] - 1

\* C26 as stated: when wait_for_pending_buffers() returns on a swapchain
\* that has presented at least once, none of its images is PENDING and
\* exactly one is PRESENTED; the call waits on the free-image semaphore
\* max(0, image_count - acquired - 1) times, acquired counted at entry.
C26_WaitLeavesOnePresented ==
    [][ /\ \A x \in SC :
              (WaitForPendingReturns(x) /\ life[x] = "live" /\ ~first_present[x])
                  => Drained(status'[x])
        /\ WaitsCounted ]_vars

\* The not-yet-dequeued part of a ring: the slots queue_present has written
\* and the worker has not read.
QueuedSlots(r) == { j \in Img : r[j] # NoImg }

\* The same as a sequence, from the head on.
Queued(s) ==
    [ k \in 1 .. Cardinality(QueuedSlots(ring[s])) |->
        ring[s][(head[s] + k - 1) % NumImages] ]

\* Index i is in the not-yet-dequeued part of ring r.
InRing(r, i) == \E j \in Img : r[j] = i

\* No index is in the not-yet-dequeued part of ring r twice.
NoIndexTwice(r) ==
    \A j, k \in Img : (j # k /\ r[j] # NoImg) => r[j] # r[k]

\* The head of the ring of s moves only in the worker's dequeue, the tail
\* only in queue_present; the frees of teardown end the life of both.
HeadAndTailOwned(s) ==
    /\ head'[s] # head[s] =>
          \/ wpc[s] = "loop" /\ wpc'[s] = "fence"
          \/ TeardownStep(s)
    /\ tail'[s] # tail[s] =>
          \/ InQueuePresent(s)
          \/ TeardownStep(s)

\* C27 as stated: in every state each PENDING image has its index exactly
\* once in the not-yet-dequeued part of the ring, no index is there twice,
\* the head is moved only by the worker and the tail only by queue_present.
C27_PendingInRingOnce ==
    [][ \A s \in SC :
          /\ NoIndexTwice(ring[s])'
          /\ \A i \in Img :
                status'[s][i] = "PENDING" => InRing(ring[s], i)'
          /\ HeadAndTailOwned(s) ]_vars

\* The PENDING images of a swapchain that are neither in the not-yet-dequeued
\* part of its ring r nor with its worker, which holds index w.
Dropped(st, r, w) ==
    { i \in Img : st[i] = "PENDING" /\ ~InRing(r, i) /\ w # i }

\* Where the PENDING images of s are.
PendingAccounted(s) ==
    LET dropped == Dropped(status[s], ring[s], wIdx[s])
    IN  /\ NoIndexTwice(ring[s])
        /\ \A i \in Img :
              (status[s][i] = "PENDING" /\ wIdx[s] = i) => ~InRing(ring[s], i)
        /\ dropped # {} => ~is_valid[s]
        /\ Cardinality(dropped) <= fence_failures

\* What PendingAccounted(s) is about; it holds at the start, so it holds in
\* every state when every step that changes any of this leaves it true.
Accounts(s) == << status[s], ring[s], wIdx[s], is_valid[s], fence_failures >>

\* C27 amended: no index is twice in the not-yet-dequeued part of the ring;
\* a PENDING image has its index there once, or it is the entry the worker
\* has dequeued and not yet presented, or it is an image whose fence wait has
\* failed (it stays PENDING and is in no slot; the swapchain is invalid then,
\* and there are no more such images than failed waits); the head is moved
\* only by the worker and the tail only by queue_present.
C27_PendingInRingOrWithWorker ==
    [][ \A s \in SC :
          /\ Accounts(s)' # Accounts(s) => PendingAccounted(s)'
          /\ HeadAndTailOwned(s) ]_vars

\* Both images of A are PENDING: the worker holds index 0, which it has
\* dequeued, and index 1 is the one entry left in the ring.
C27_Witness ==
    /\ status["A"] = [ i \in Img |-> IF i <= 1 THEN "PENDING" ELSE status["A"][i] ]
    /\ wpc["A"] = "fence" /\ wIdx["A"] = 0
    /\ Queued("A") = << 1 >> /\ head["A"] = 1

\* C28: the ring neither overflows nor underflows: the entries enqueued and
\* not yet dequeued are never more than the images, their number is the count
\* of the page-flip semaphore (the worker takes a count and dequeues in one
\* go, so at no time does it hold a count without its entry), they sit in
\* the slots from the head up to the tail, and each of these slots holds
\* what queue_present wrote for its entry: the slot the worker reads next has
\* been written since it was last read, and no written slot is overwritten.
C28_RingNeverOverflows ==
    \A s \in SC :
        life[s] = "live" =>
            /\ Len(pend[s]) <= NumImages
            /\ Len(pend[s]) = page_flip_semaphore[s]
            /\ tail[s] = (head[s] + Len(pend[s])) % NumImages
            /\ \A k \in 1 .. Len(pend[s]) :
                  ring[s][(head[s] + k - 1) % NumImages] = pend[s][k][1]
            /\ Cardinality(QueuedSlots(ring[s])) = Len(pend[s])

\* The ring of A is full: every image is queued, the tail has wrapped round
\* to the head, and the worker has taken none of the entries.
C28_Witness ==
    /\ life["A"] = "live" /\ Len(pend["A"]) = NumImages
    /\ page_flip_semaphore["A"] = NumImages
    /\ tail["A"] = head["A"] /\ wpc["A"] = "loop"

\* C29: the image whose index the worker has dequeued is PENDING or FREE when
\* the worker looks at its status after the fence wait, never ACQUIRED,
\* PRESENTED or INVALID; the image the worker goes on to present (at once, or
\* after the wait for the ancestor) is PENDING.
C29_DequeuedIsPendingOrFree ==
    \A s \in SC :
        /\ wpc[s] = "fence" =>
              wIdx[s] \in Img /\ status[s][wIdx[s]] \in { "PENDING", "FREE" }
        /\ wpc[s] \in { "wait_ancestor", "start_present" } =>
              wIdx[s] \in Img /\ status[s][wIdx[s]] = "PENDING"

\* The worker of A holds index 1, which queue_present marked FREE because B
\* had taken over, while image 0 of A is still on screen.
C29_Witness ==
    /\ wpc["A"] = "fence" /\ wIdx["A"] = 1
    /\ status["A"][1] = "FREE" /\ status["A"][0] = "PRESENTED"
    /\ descendant["A"] = "B"

\* An entry of a queue_present of s that returned OUT_OF_DATE_KHR is in the
\* ring or with the worker.
TookOverQueued(s) ==
    wTook[s] \/ \E k \in 1 .. Len(pend[s]) : pend[s][k][2]

\* Swapchain t has an image PRESENTED or PENDING.
StartedPresenting(st) == \E i \in Img : st[i] \in { "PRESENTED", "PENDING" }

\* The worker never presents an image whose queue_present returned
\* OUT_OF_DATE_KHR: when its fence wait succeeds, the worker destroys it and
\* posts the free-image semaphore.
TookOverReclaimed(s) ==
    /\ Presents(s) => ~wTook[s]
    /\ (FencePassed(s) /\ wTook[s]) =>
          /\ Destroyed(s, wIdx[s])
          /\ free_image_semaphore'[s] = free_image_semaphore[s] + 1

\* C30 as stated: an image whose queue_present returned OUT_OF_DATE_KHR is
\* never passed to present_image, the worker destroys it and posts the
\* free-image semaphore instead; and once queue_present of a swapchain has
\* seen that the descendant took over, every image it queues from then on is
\* treated the same way (here: every image it queues while an entry of that
\* kind is still waiting for the worker).
C30_OutOfDateNeverPresented ==
    [][ \A s \in SC :
          /\ TookOverReclaimed(s)
          /\ (Submits(s) /\ TookOverQueued(s)) => aTook[s] ]_vars

\* C30 amended: the same, for as long as the descendant exists.  queue_present
\* looks at the descendant anew at every call; a descendant that has started
\* presenting stays so while it lives, so every later call sees it again and
\* returns OUT_OF_DATE_KHR; the link to the descendant goes only with the
\* teardown of one of the two, and a call made after that does not see it.
C30_OutOfDateWhileDescendantLives ==
    [][ \A s \in SC :
          /\ TookOverReclaimed(s)
          /\ (apc[s] = "idle" /\ apc'[s] = "present") =>
                aTook'[s] = ( /\ descendant[s] # NoSC
                              /\ StartedPresenting(status[descendant[s]]) )
          /\ (StartedPresenting(status[s]) /\ life'[s] = "live") =>
                StartedPresenting(status'[s])
          /\ (descendant[s] # NoSC /\ descendant'[s] # descendant[s]) =>
                (TeardownStep(s) \/ TeardownStep(descendant[s]))
          /\ (Submits(s) /\ TookOverQueued(s) /\ descendant[s] # NoSC) =>
                aTook[s]
          /\ (Submits(s) /\ aTook[s]) =>
                /\ ret'.val = "OUT_OF_DATE_KHR"
                /\ pend'[s] = Append(pend[s], << aIdx[s], TRUE >>) ]_vars

\* Both images of A were queued after B took over: the worker of A has
\* destroyed image 0 and holds the entry of image 1.
C30_Witness ==
    /\ life["B"] = "live" /\ descendant["A"] = "B"
    /\ wpc["A"] = "fence" /\ wTook["A"] /\ wIdx["A"] = 1
    /\ status["A"][0] = "INVALID" /\ status["A"][1] = "FREE"
    /\ first_present["A"]

\* The images present_image of s hands to unpresent_image in this step: the
\* ones on screen that the image now presented displaces.
Unpresented(s) ==
    IF Presents(s)
    THEN { i \in Img : status[s][i] = "PRESENTED" /\ i # wIdx[s] }
    ELSE {}

\* C31: unpresent_image(i) leaves image i FREE, and destroyed instead exactly
\* when the swapchain has a descendant recorded; it posts the free-image
\* semaphore once; the images other than i and the one being presented keep
\* their state, and the ring, its head and tail, the page-flip semaphore and
\* the validity flag are as they were.
C31_UnpresentFrameEffect ==
    [][ \A s \in SC : \A i \in Unpresented(s) :
          /\ Destroyed(s, i) = (descendant[s] # NoSC)
          /\ status'[s][i] = IF descendant[s] # NoSC THEN "INVALID" ELSE "FREE"
          /\ free_image_semaphore'[s] = free_image_semaphore[s] + 1
          /\ \A j \in Img \ { i, wIdx[s] } : status'[s][j] = status[s][j]
          /\ \A t \in SC \ { s } : status'[t] = status[t]
          /\ ringVars' = ringVars /\ is_valid' = is_valid
          /\ page_flip_semaphore' = page_flip_semaphore ]_vars

\* Image 1 of A went on screen after B was created: image 0, which it
\* displaced, is destroyed and its count is in the free-image semaphore.
C31_Witness ==
    /\ life["A"] = "live" /\ descendant["A"] = "B" /\ ~first_present["A"]
    /\ status["A"][1] = "PRESENTED" /\ status["A"][0] = "INVALID"
    /\ destroyed["A"] = { 0 } /\ free_image_semaphore["A"] = 1
    /\ apc["A"] = "idle" /\ acquires = 2

\* deprecate(d) runs on s in this step: init of d calls it on its old
\* swapchain.
Deprecates(s, d) == life[d] = "none" /\ life'[d] = "live" /\ ancestor'[d] = s

\* C32: deprecate(descendant) destroys exactly the images that are FREE when
\* it is called, leaves the ACQUIRED, PENDING and PRESENTED images as they
\* are, records the descendant, and changes neither the pending ring nor the
\* page-flip semaphore.
C32_DeprecateFrameEffect ==
    [][ \A s, d \in SC : Deprecates(s, d) =>
          /\ { i \in Img : Destroyed(s, i) }
                = { i \in Img : status[s][i] = "FREE" }
          /\ \A i \in Img :
                /\ status[s][i] = "FREE" => status'[s][i] = "INVALID"
                /\ status[s][i] \in { "ACQUIRED", "PENDING", "PRESENTED" }
                      => status'[s][i] = status[s][i]
          /\ descendant[s] = NoSC /\ descendant'[s] = d
          /\ ring'[s] = ring[s] /\ head'[s] = head[s] /\ tail'[s] = tail[s]
          /\ pend'[s] = pend[s]
          /\ page_flip_semaphore' = page_flip_semaphore ]_vars

\* init of B has just deprecated A, whose image 0 was on screen and image 1
\* free: image 1 is destroyed, image 0 is still on screen.
C32_Witness ==
    /\ ret = Returned("B", "init", "SUCCESS", NoImg)
    /\ descendant["A"] = "B" /\ ancestor["B"] = "A"
    /\ status["A"][0] = "PRESENTED" /\ status["A"][1] = "INVALID"
    /\ 1 \in destroyed["A"] /\ 0 \notin destroyed["A"]

\* s holds a handle to t in m_ancestor or m_descendant.
HoldsHandle(s, t) == ancestor[s] = t \/ descendant[s] = t

\* C33: the ancestor/descendant link is symmetric whenever it is set and
\* teardown breaks it on both sides: when init of B with oldSwapchain A
\* returns, B.ancestor = A and A.descendant = B; when teardown of a swapchain
\* returns, no swapchain holds a handle to it; and no swapchain ever holds an
\* ancestor or descendant handle to a swapchain whose teardown has completed.
C33_LinkSymmetricAndLive ==
    /\ \A s, t \in SC : (ancestor[s] = t) = (descendant[t] = s)
    /\ \A s, t \in SC : HoldsHandle(s, t) => life[s] = "live" /\ life[t] = "live"
    /\ ret = Returned("B", "init", "SUCCESS", NoImg)
          => ancestor["B"] = "A" /\ descendant["A"] = "B"
    /\ \A t \in SC : ret = Returned(t, "teardown", "none", NoImg)
          => \A s \in SC : ~HoldsHandle(s, t)

\* teardown of A has returned while B, created from it, lives on: B's
\* ancestor handle is cleared.
C33_Witness ==
    /\ ret = Returned("A", "teardown", "none", NoImg)
    /\ life["A"] = "dead" /\ life["B"] = "live"
    /\ ancestor["B"] = NoSC /\ descendant["A"] = NoSC

\* A device call of queue_present on s fails in this step.
DeviceCallFails(s) == apc[s] = "present" /\ apc'[s] = "present_failed"

\* queue_present of s returns the failed device call's result in this step.
FailedPresentReturns(s) == apc[s] = "present_failed" /\ apc'[s] = "idle"

\* C34: when ResetFences or QueueSubmit fails inside queue_present, the call
\* returns that device result unchanged; from the failure to the return the
\* image stays ACQUIRED, nothing is appended to the pending ring (the tail
\* does not move, the image is in no slot) and the page-flip semaphore is
\* not posted.
C34_DeviceErrorLeavesImageAcquired ==
    [][ \A s \in SC :
          /\ (DeviceCallFails(s) \/ apc[s] = "present_failed") =>
                /\ status[s][aIdx[s]] = "ACQUIRED"
                /\ status'[s][aIdx[s]] = "ACQUIRED"
                /\ tail'[s] = tail[s]
                /\ \A k \in Img : ring'[s][k] # aIdx[s]
                /\ Len(pend'[s]) <= Len(pend[s])
                /\ page_flip_semaphore'[s] <= page_flip_semaphore[s]
          /\ DeviceCallFails(s) => aRes'[s] \in DeviceErrors
          /\ FailedPresentReturns(s) =>
                /\ aRes[s] \in DeviceErrors
                /\ ret' = Returned(s, "queue_present", aRes[s], aIdx[s]) ]_vars

\* queue_present of image 0 of A has returned the device's out-of-memory
\* error: the image is still ACQUIRED and nothing is queued or signalled.
C34_Witness ==
    /\ ret = Returned("A", "queue_present", "ERROR_OUT_OF_DEVICE_MEMORY", 0)
    /\ status["A"][0] = "ACQUIRED" /\ apc["A"] = "idle"
    /\ head["A"] = tail["A"] /\ pend["A"] = << >>
    /\ page_flip_semaphore["A"] = 0

\* The heap query of the call fails or reports no DMA-type heap.
NoDmaHeap(req) ==
    \/ req.query < 0
    \/ \A i \in 1..Len(req.heaps) : req.heaps[i].type # "ION_HEAP_TYPE_DMA"

\* The ids of the DMA-type heaps a successful query reports.
DmaHeapIds(req) ==
    IF req.query < 0 THEN {}
    ELSE { req.heaps[i].heap_id : i \in { j \in 1..Len(req.heaps) :
                                    req.heaps[j].type = "ION_HEAP_TYPE_DMA" } }

\* wsialloc_new has returned after malloc and open succeeded.
NewQueriedHeaps ==
    new_reply # NoCall /\ new_request.malloc /\ new_request.open >= 0

\* C35: on the ION adaptor, whenever the heap query fails or reports no
\* DMA-type heap, wsialloc_new returns NO_RESOURCE, has closed the /dev/ion
\* descriptor it opened and has not written *allocator; it returns NONE only
\* with the id of a DMA-type heap stored.
C35_NewFailsWithoutDmaHeap ==
    /\ (NewQueriedHeaps /\ NoDmaHeap(new_request)) =>
          /\ new_reply.return = "NO_RESOURCE"
          /\ new_reply.fds = {}
          /\ new_reply.allocator = new_request.allocator
    /\ (new_reply # NoCall /\ new_reply.return = "NONE") =>
          \E h \in DmaHeapIds(new_request) :
              new_reply.allocator.alloc_heap_id = to_uint32(h)

====
